---- MODULE Spec2Model ----
(***************************************************************************)
(* A model of the tungstopterin WebSocket core (crates/websocket): the     *)
(* frame codec (frame.rs), the message assembly (message.rs), the opening  *)
(* handshake (handshake.rs) and the role-tagged send/receive halves        *)
(* (lib.rs), and of the chat server (crates/server) and the chat client    *)
(* (crates/client) built on it.                                            *)
(*                                                                         *)
(* Conventions.                                                            *)
(*   - A byte is an integer 0..255, a Vec<u8> / String a sequence of bytes *)
(*     (1-indexed here, 0-indexed in the source).                          *)
(*   - Option<T> is None or Some(v); Result<T, E> is Ok(v) or Err(e).      *)
(*   - A panic (unwrap on None, unreachable!) is the value Panic.          *)
(*   - u32 / u64 values are drawn below 2^31.                              *)
(*   - The role tags keep the source's names: the type tag Server is the   *)
(*     Initiator (it opens the connection), the type tag Client is the     *)
(*     Acceptor.                                                           *)
(*                                                                         *)
(* The specifications of the module:                                       *)
(*   SpecCodec      the pure conversions, applied to inputs drawn by Init  *)
(*   Spec           one connection: send and receive on both roles         *)
(*   SpecReceive    receive on frames a foreign peer wrote, stream end     *)
(*   SpecHandshake  try_upgrade of the Acceptor and of the Initiator       *)
(*   SpecServer     the chat server's registry and per-connection tasks    *)
(*   SpecServerFair SpecServer under the scheduling of the runtime         *)
(*   SpecRegistry   try_connect and disconnect called in any order         *)
(*   SpecApp        the chat client's event queue and component stack      *)
(*   SpecTasks      main and the background loops of the chat client,      *)
(*   SpecTasksFair  and the same under the scheduling of the runtime       *)
(***************************************************************************)
EXTENDS Integers, Sequences, FiniteSets, TLC

VARIABLES
    c_case,     \* SpecCodec: which input Init drew: "frame", "frames", "len",
                \*            "raw", "message", "code", "stream" or "http"
    c_frame,    \* SpecCodec: the Frame the operations are applied to
    c_frames,   \* SpecCodec: the Vec<Frame> given to Message::try_from
    c_len,      \* SpecCodec: the u64 payload length given to FrameHeader::new
    c_message,  \* SpecCodec: the Message given to Frame::from
    c_code,     \* SpecCodec: the u16 given to StatusCode::from
    c_read,     \* SpecCodec: the buffers read_frame_bytes returned so far
    c_cur,      \* SpecCodec: the Frame after the mask() calls made so far
    c_bytes,    \* SpecCodec: the Vec<u8> the last encoding produced
    c_out,      \* SpecCodec: the Result of the last decoding / conversion
    c_step,     \* SpecCodec: the last operation applied
    wire,       \* Spec: wire[s] = the bytes side s wrote that its peer has not read
    sent,       \* Spec: one record per send call: side, message, key drawn, bytes
    received,   \* Spec: received[s] = the results of the receive calls of side s
    rx_frames,  \* Spec: rx_frames[s] = the Vec<Frame> of the receive call s is in
    closed,     \* Spec: closed[s] = the stream side s writes has ended or failed
    hs_request, \* SpecHandshake: what the peer wrote before the Acceptor reads
    hs_written, \* SpecHandshake: the response the Acceptor wrote, if any
    hs_result,  \* SpecHandshake: what try_upgrade returned
    hs_task,    \* SpecHandshake: whether main went on to exchange frames
    hs_key,     \* SpecHandshake: the Sec-WebSocket-Key of the Initiator, if it is one
    sv_clients, \* SpecServer: the Clients registry behind the Arc<Mutex<..>>
    sv_lock,    \* SpecServer: the address of the task that holds the MutexGuard, if any
    sv_task,    \* SpecServer: sv_task[a] = position and locals of the task of address a
    sv_out,     \* SpecServer: sv_out[a] = the messages sent through the write half of a
    sv_names,   \* SpecServer: how many names the RANDOM_NAMES iterator has given out
    sv_reads,   \* SpecServer: how many receive calls have returned
    rg_call,    \* SpecRegistry: the last call on the registry, the registry before it, its return
    ap_stack,   \* SpecApp: ComponentStack::inner, bottom first
    ap_focus,   \* SpecApp: ComponentStack::focus
    ap_queue,   \* SpecApp: the AppEvents sent on event_tx and not yet received
    ap_quit,    \* SpecApp: App::should_quit
    ap_panic,   \* SpecApp: whether App::run has panicked
    ap_events,  \* SpecApp: how many events the background tasks have sent
    ct_main,    \* SpecTasks: the position of main
    ct_token,   \* SpecTasks: whether App::cancel_token is cancelled
    ct_emitter, \* SpecTasks: the position of the key-event loop of spawn_event_emitter
    ct_receiver, \* SpecTasks: the position of the receive loop of spawn_event_emitter
    ct_sender,  \* SpecTasks: the position of the loop of spawn_ws_sender
    ct_chan,    \* SpecTasks: the Message channel of spawn_ws_sender: messages waiting, closed
    ct_conn     \* SpecTasks: whether the server's stream is still open

codecInputs == <<c_case, c_frame, c_frames, c_len, c_message>>
codecVars == <<codecInputs, c_code, c_read, c_cur, c_bytes, c_out, c_step>>
connVars == <<wire, sent, received, rx_frames, closed>>
hsVars == <<hs_request, hs_written, hs_result, hs_task, hs_key>>
svVars == <<sv_clients, sv_lock, sv_task, sv_out, sv_names, sv_reads>>
apVars == <<ap_stack, ap_focus, ap_queue, ap_quit, ap_panic, ap_events>>
ctVars == <<ct_main, ct_token, ct_emitter, ct_receiver, ct_sender, ct_chan, ct_conn>>
vars == <<codecVars, connVars, hsVars, svVars, rg_call, apVars, ctVars>>

-----------------------------------------------------------------------------
(* Option, Result, panic *)

None == [some |-> FALSE]
Some(v) == [some |-> TRUE, v |-> v]
Ok(v) == [ok |-> TRUE, val |-> v]
Err(e) == [ok |-> FALSE, err |-> e]
Panic == [ok |-> FALSE, err |-> "panic", panic |-> TRUE]

-----------------------------------------------------------------------------
(* Integer helpers of the standard library, computed bit by bit *)

\* u8 ^ u8, bit by bit
RECURSIVE xor_bits(_, _)
xor_bits(a, b) ==
    IF a = 0 THEN b
    ELSE IF b = 0 THEN a
    ELSE (((a % 2) + (b % 2)) % 2) + 2 * xor_bits(a \div 2, b \div 2)

\* u8 ^ u8, tabulated for all pairs of bytes
BitXorTable == [a \in 0..255 |-> [b \in 0..255 |-> xor_bits(a, b)]]
BitXor(a, b) == BitXorTable[a][b]

\* {integer}::to_be_bytes for a w-byte integer: most significant byte first
RECURSIVE to_be_bytes(_, _)
to_be_bytes(n, w) ==
    IF w = 0 THEN <<>> ELSE Append(to_be_bytes(n \div 256, w - 1), n % 256)

\* {integer}::from_be_bytes
RECURSIVE from_be_bytes(_)
from_be_bytes(s) ==
    IF s = <<>> THEN 0
    ELSE (from_be_bytes(SubSeq(s, 1, Len(s) - 1)) * 256) + s[Len(s)]

\* Vec::truncate(n) that leaves the vector as it is
truncate_Keep(s, n) == s

\* Vec::truncate(n)
truncate(s, n) == IF Len(s) > n THEN SubSeq(s, 1, n) ELSE s

\* slice.get(from..) with a 0-based start: None when from > len
get_from(s, from) ==
    IF from > Len(s) THEN None ELSE Some(SubSeq(s, from + 1, Len(s)))

\* slice.get(from..to) with 0-based bounds: None when to > len
get_range(s, from, to) ==
    IF to > Len(s) THEN None ELSE Some(SubSeq(s, from + 1, to))

\* String::from_utf8: Ok on well-formed UTF-8 (Unicode table 3-7), else Err.
\* Every byte is a lead byte followed by the continuation bytes it asks for,
\* or one of the continuation bytes of the lead byte before it.
IsCont(b) == b >= 128 /\ b <= 191
\* the continuation bytes lead byte b asks for; -1 when b cannot lead
utf8_tail(b) ==
    IF b < 128 THEN 0
    ELSE IF b >= 194 /\ b <= 223 THEN 1
    ELSE IF b >= 224 /\ b <= 239 THEN 2
    ELSE IF b >= 240 /\ b <= 244 THEN 3
    ELSE -1
\* the range of the byte that follows lead byte b
utf8_second(b, c) ==
    IF b = 224 THEN c >= 160 /\ c <= 191
    ELSE IF b = 237 THEN c >= 128 /\ c <= 159
    ELSE IF b = 240 THEN c >= 144 /\ c <= 191
    ELSE IF b = 244 THEN c >= 128 /\ c <= 143
    ELSE IsCont(c)
Utf8Valid(s) ==
    \A i \in 1..Len(s) :
        IF IsCont(s[i])
        THEN \E k \in 1..3 :
                /\ i - k >= 1
                /\ utf8_tail(s[i - k]) >= k
                /\ \A j \in 1..(k - 1) : IsCont(s[i - j])
        ELSE /\ utf8_tail(s[i]) >= 0
             /\ i + utf8_tail(s[i]) <= Len(s)
             /\ \A j \in 1..utf8_tail(s[i]) : IsCont(s[i + j])
             /\ utf8_tail(s[i]) >= 1 => utf8_second(s[i], s[i + 1])

-----------------------------------------------------------------------------
(* frame.rs *)

Opcodes == {"Continue", "Text", "Binary", "Close", "Ping", "Pong"}

\* enum Opcode discriminants (`value.opcode as u8`)
Opcode_as_u8(op) ==
    CASE op = "Continue" -> 0
      [] op = "Text"     -> 1
      [] op = "Binary"   -> 2
      [] op = "Close"    -> 8
      [] op = "Ping"     -> 9
      [] op = "Pong"     -> 10

\* Opcode::try_from reading every reserved number as Continue
Opcode_try_from_Lenient(value) ==
    CASE value = 1  -> Ok("Text")
      [] value = 2  -> Ok("Binary")
      [] value = 8  -> Ok("Close")
      [] value = 9  -> Ok("Ping")
      [] value = 10 -> Ok("Pong")
      [] OTHER      -> Ok("Continue")

\* impl TryFrom<u8> for Opcode
Opcode_try_from(value) ==
    CASE value = 0  -> Ok("Continue")
      [] value = 1  -> Ok("Text")
      [] value = 2  -> Ok("Binary")
      [] value = 8  -> Ok("Close")
      [] value = 9  -> Ok("Ping")
      [] value = 10 -> Ok("Pong")
      [] OTHER      -> Err("InvalidOpcode")

\* enum PayloadLen
ExactU8(n)  == [kind |-> "ExactU8",  n |-> n]
ExactU16(n) == [kind |-> "ExactU16", n |-> n]
ExactU64(n) == [kind |-> "ExactU64", n |-> n]
HintU16     == [kind |-> "HintU16",  n |-> 0]
HintU64     == [kind |-> "HintU64",  n |-> 0]

U8_MAX == 125
U16_MAX == 65535

\* a length-class choice with the 125/126 boundary moved down by one
PayloadLen_from_Boundary(value) ==
    IF value < U8_MAX THEN ExactU8(value)
    ELSE IF value <= U16_MAX THEN ExactU16(value)
    ELSE ExactU64(value)

\* impl From<u64> for PayloadLen: the first matching arm wins
PayloadLen_from(value) ==
    IF value <= U8_MAX THEN ExactU8(value)
    ELSE IF value <= U16_MAX THEN ExactU16(value)
    ELSE ExactU64(value)

\* FrameHeader::new
FrameHeader_new(fin, opcode, masked, payload_len) ==
    [fin |-> fin, rsv |-> 0, opcode |-> opcode, masked |-> masked,
     payload_len |-> PayloadLen_from(payload_len)]

\* Frame::new; key is the value rand::rng().next_u32() returned
Frame_new(fin, opcode, payload, key) ==
    [header |-> FrameHeader_new(fin, opcode, TRUE, Len(payload)),
     masking_key |-> Some(key),
     payload |-> payload]

\* key.to_be_bytes()[index % 4] read from the least significant byte first
key_byte_LittleEndian(key, index) == to_be_bytes(key, 4)[4 - (index % 4)]

\* key.to_be_bytes()[index % 4], index 0-based
key_byte(key, index) == to_be_bytes(key, 4)[(index % 4) + 1]

\* `*byte ^= k` replaced by a wrapping addition
mask_byte_Add(byte, k) == (byte + k) % 256

\* `*byte ^= k`
mask_byte(byte, k) == BitXor(byte, k)

\* Frame::mask: panics when masking_key is None
Frame_mask(frame) ==
    IF ~frame.masking_key.some THEN Panic
    ELSE Ok([frame EXCEPT !.payload =
                [i \in 1..Len(frame.payload) |->
                    mask_byte(frame.payload[i],
                              key_byte(frame.masking_key.v, i - 1))]])

\* the header encoding with rsv shifted left by 3 instead of 4
FrameHeader_into_bytes_RsvShift(value) ==
    LET first_bit == (IF value.fin THEN 128 ELSE 0)
                     + ((value.rsv % 8) * 8)
                     + Opcode_as_u8(value.opcode)
        mask_bit == IF value.masked THEN 128 ELSE 0
        pl == value.payload_len
    IN  CASE pl.kind = "ExactU8"  -> <<first_bit, mask_bit + pl.n>>
          [] pl.kind = "ExactU16" ->
                <<first_bit, mask_bit + 126>> \o to_be_bytes(pl.n, 2)
          [] pl.kind = "ExactU64" ->
                <<first_bit, mask_bit + 127>> \o to_be_bytes(pl.n, 8)
          [] pl.kind = "HintU16"  -> <<first_bit, mask_bit + 126>>
          [] pl.kind = "HintU64"  -> <<first_bit, mask_bit + 127>>

\* impl From<FrameHeader> for Vec<u8>
FrameHeader_into_bytes(value) ==
    LET first_bit == (IF value.fin THEN 128 ELSE 0)
                     + ((value.rsv % 8) * 16)
                     + Opcode_as_u8(value.opcode)
        mask_bit == IF value.masked THEN 128 ELSE 0
        pl == value.payload_len
    IN  CASE pl.kind = "ExactU8"  -> <<first_bit, mask_bit + pl.n>>
          [] pl.kind = "ExactU16" ->
                <<first_bit, mask_bit + 126>> \o to_be_bytes(pl.n, 2)
          [] pl.kind = "ExactU64" ->
                <<first_bit, mask_bit + 127>> \o to_be_bytes(pl.n, 8)
          [] pl.kind = "HintU16"  -> <<first_bit, mask_bit + 126>>
          [] pl.kind = "HintU64"  -> <<first_bit, mask_bit + 127>>

\* impl TryFrom<&[u8]> for FrameHeader
FrameHeader_try_from(value) ==
    IF Len(value) < 2 THEN Err("FrameTooShort")
    ELSE
    LET len_header == value[2] % 128
        payload_len ==
            IF len_header <= 125 THEN ExactU8(len_header)
            ELSE IF len_header = 126
                 THEN LET slice == get_range(value, 2, 4)
                      IN  IF slice.some THEN ExactU16(from_be_bytes(slice.v))
                          ELSE HintU16
            ELSE LET slice == get_range(value, 2, 10)
                 IN  IF slice.some THEN ExactU64(from_be_bytes(slice.v))
                     ELSE HintU64
        opcode == Opcode_try_from(value[1] % 16)
    IN  IF ~opcode.ok THEN Err("InvalidOpcode")
        ELSE Ok([fin |-> (value[1] \div 128) /= 0,
                 rsv |-> (value[1] % 128) \div 16,
                 opcode |-> opcode.val,
                 masked |-> (value[2] \div 128) /= 0,
                 payload_len |-> payload_len])

\* impl From<Frame> for Vec<u8>
Frame_into_bytes(value) ==
    FrameHeader_into_bytes(value.header)
    \o (IF value.masking_key.some THEN to_be_bytes(value.masking_key.v, 4)
        ELSE <<>>)
    \o value.payload

MASKING_KEY_LEN == 4

\* the 0-based index at which Frame::try_from starts the payload
payload_index(masking_key_index, masked) == masking_key_index + MASKING_KEY_LEN

\* impl TryFrom<Vec<u8>> for Frame
Frame_try_from(value) ==
    LET header == FrameHeader_try_from(value)
    IN  IF ~header.ok THEN header
        ELSE
        LET h == header.val
            kind == h.payload_len.kind
        IN  IF kind \notin {"ExactU8", "ExactU16", "ExactU64"}
            THEN Err("LengthParsing")
            ELSE
            LET masking_key_index ==
                    CASE kind = "ExactU8"  -> 2
                      [] kind = "ExactU16" -> 4
                      [] kind = "ExactU64" -> 10
                key_bytes == get_range(value, masking_key_index,
                                       masking_key_index + MASKING_KEY_LEN)
                payload == get_from(value,
                                    payload_index(masking_key_index, h.masked))
            IN  IF h.masked /\ ~key_bytes.some THEN Err("MaskingKeyParsing")
                ELSE IF ~payload.some THEN Err("PayloadTooShort")
                ELSE Ok([header |-> h,
                         masking_key |-> IF h.masked
                                         THEN Some(from_be_bytes(key_bytes.v))
                                         ELSE None,
                         payload |-> payload.v])

-----------------------------------------------------------------------------
(* message.rs *)

StatusCodes == {"Normal", "GoingAway", "ProtocolError", "UnsupportedData",
                "NoStatus", "CloseAbnormal", "InvalidPayloadData",
                "PolicyViolated", "MessageTooBig", "UnsupportedExtension",
                "InternalServerError"}

\* enum StatusCode discriminants (`code as u16`)
StatusCode_as_u16(code) ==
    CASE code = "Normal"               -> 1000
      [] code = "GoingAway"            -> 1001
      [] code = "ProtocolError"        -> 1002
      [] code = "UnsupportedData"      -> 1003
      [] code = "NoStatus"             -> 1005
      [] code = "CloseAbnormal"        -> 1006
      [] code = "InvalidPayloadData"   -> 1007
      [] code = "PolicyViolated"       -> 1008
      [] code = "MessageTooBig"        -> 1009
      [] code = "UnsupportedExtension" -> 1010
      [] code = "InternalServerError"  -> 1011

\* StatusCode::from with 1004 read as NoStatus and the default arm
\* returning ProtocolError
StatusCode_from_Shifted(value) ==
    CASE value = 1000 -> "Normal"
      [] value = 1001 -> "GoingAway"
      [] value = 1002 -> "ProtocolError"
      [] value = 1003 -> "UnsupportedData"
      [] value = 1004 -> "NoStatus"
      [] value = 1006 -> "CloseAbnormal"
      [] value = 1007 -> "InvalidPayloadData"
      [] value = 1008 -> "PolicyViolated"
      [] value = 1009 -> "MessageTooBig"
      [] value = 1010 -> "UnsupportedExtension"
      [] value = 1011 -> "InternalServerError"
      [] OTHER        -> "ProtocolError"

\* impl From<u16> for StatusCode
StatusCode_from(value) ==
    CASE value = 1000 -> "Normal"
      [] value = 1001 -> "GoingAway"
      [] value = 1002 -> "ProtocolError"
      [] value = 1003 -> "UnsupportedData"
      [] value = 1005 -> "NoStatus"
      [] value = 1006 -> "CloseAbnormal"
      [] value = 1007 -> "InvalidPayloadData"
      [] value = 1008 -> "PolicyViolated"
      [] value = 1009 -> "MessageTooBig"
      [] value = 1010 -> "UnsupportedExtension"
      [] value = 1011 -> "InternalServerError"
      [] OTHER        -> "UnsupportedData"

\* enum Message; a String is kept as its UTF-8 bytes
Text(s)          == [kind |-> "Text", payload |-> s]
Binary(b)        == [kind |-> "Binary", payload |-> b]
Close(code, rsn) == [kind |-> "Close", code |-> code, reason |-> rsn]
Ping(b)          == [kind |-> "Ping", payload |-> b]
Pong(b)          == [kind |-> "Pong", payload |-> b]

\* impl From<&Message> for Opcode
Opcode_from_Message(value) == value.kind

\* enum MessageError
ProtocolViolated(code) == [kind |-> "ProtocolViolated", code |-> code]
IsNotFinal == [kind |-> "IsNotFinal"]

\* the `match value.header.opcode` of Message::try_from(Frame)
Message_match_opcode(value) ==
    LET op == value.header.opcode
        payload == value.payload
    IN  CASE op = "Continue" -> Err(ProtocolViolated("ProtocolError"))
          [] op = "Text" ->
                IF Utf8Valid(payload) THEN Ok(Text(payload))
                ELSE Err(ProtocolViolated("InvalidPayloadData"))
          [] op = "Binary" -> Ok(Binary(payload))
          [] op = "Close" ->
                LET code == get_range(payload, 0, 2)
                    rest == get_from(payload, 2)
                IN  IF ~code.some
                    THEN Err(ProtocolViolated("InvalidPayloadData"))
                    ELSE IF rest.some /\ ~Utf8Valid(rest.v)
                    THEN Err(ProtocolViolated("InvalidPayloadData"))
                    ELSE Ok(Close(StatusCode_from(from_be_bytes(code.v)),
                                  IF rest.some /\ rest.v /= <<>>
                                  THEN Some(rest.v) ELSE None))
          [] op = "Ping" -> Ok(Ping(payload))
          [] op = "Pong" -> Ok(Pong(payload))

\* Message::try_from(Frame) without the check of the fin bit
Message_try_from_Frame_NoFinCheck(value) == Message_match_opcode(value)

\* impl TryFrom<Frame> for Message
Message_try_from_Frame(value) ==
    IF ~value.header.fin THEN Err(IsNotFinal)
    ELSE Message_match_opcode(value)

\* the fold that concatenates the payloads, last fragment left out
RECURSIVE concat_payloads_DropLast(_)
concat_payloads_DropLast(frames) ==
    IF Len(frames) <= 1 THEN <<>>
    ELSE frames[1].payload \o concat_payloads_DropLast(Tail(frames))

\* value.into_iter().map(|frame| frame.payload).reduce(extend_from_slice)
RECURSIVE concat_payloads(_)
concat_payloads(frames) ==
    IF frames = <<>> THEN <<>>
    ELSE frames[1].payload \o concat_payloads(Tail(frames))

\* impl TryFrom<Vec<Frame>> for Message
Message_try_from_Frames(value) ==
    IF value = <<>> THEN Err(ProtocolViolated("UnsupportedData"))
    ELSE IF value[1].header.fin THEN Message_try_from_Frame(value[1])
    ELSE LET buffer == concat_payloads(value)
             first == [value[1] EXCEPT
                          !.header.fin = TRUE,
                          !.header.payload_len = PayloadLen_from(Len(buffer)),
                          !.payload = buffer]
         IN  Message_try_from_Frame(first)

CLOSE_REASON_MAX == 123
CONTROL_PAYLOAD_MAX == 125

\* the payload of Frame::from(Message) with the reason of a Close left out
Message_payload_NoReason(value) ==
    CASE value.kind \in {"Text", "Binary"} -> value.payload
      [] value.kind = "Close" ->
            to_be_bytes(StatusCode_as_u16(value.code), 2)
      [] value.kind \in {"Ping", "Pong"} ->
            truncate(value.payload, CONTROL_PAYLOAD_MAX)

\* the payload `match value` of Frame::from(Message)
Message_payload(value) ==
    CASE value.kind \in {"Text", "Binary"} -> value.payload
      [] value.kind = "Close" ->
            to_be_bytes(StatusCode_as_u16(value.code), 2)
            \o (IF value.reason.some
                THEN truncate(value.reason.v, CLOSE_REASON_MAX) ELSE <<>>)
      [] value.kind \in {"Ping", "Pong"} ->
            truncate(value.payload, CONTROL_PAYLOAD_MAX)

\* Frame::from(Message) building a non-final frame
Frame_from_Message_NotFinal(value, key) ==
    Frame_new(FALSE, Opcode_from_Message(value), Message_payload(value), key)

\* impl From<Message> for Frame; key is the random key Frame::new draws
Frame_from_Message(value, key) ==
    Frame_new(TRUE, Opcode_from_Message(value), Message_payload(value), key)

-----------------------------------------------------------------------------
(* lib.rs *)

Sides == {"Server", "Client"}

\* a read half that reads what its own write half wrote
Peer_Same(side) == side

\* the side whose write half feeds the read half of side
Peer(side) == IF side = "Server" THEN "Client" ELSE "Server"

Zeros(n) == [i \in 1..n |-> 0]

\* frame_len with the 4 bytes of a key counted for every frame
frame_len_KeyAlways(payload_len_bytes, masked) == 2 + payload_len_bytes + 4

\* let frame_len = 2 + payload_len_bytes + if header.masked { 4 } else { 0 }
frame_len(payload_len_bytes, masked) ==
    2 + payload_len_bytes + (IF masked THEN 4 ELSE 0)

\* the loop of read_http_bytes on the bytes the stream holds, with pos bytes
\* already in buf: the length of buf at the break, -1 while read_line waits
\* for the end of a line, -2 when buf is shorter than the 4 bytes the test
\* `&buf[buf.len() - 4..]` slices off (index out of range: a panic)
RECURSIVE read_http_loop(_, _)
read_http_loop(stream, pos) ==
    LET ends == {i \in (pos + 1)..Len(stream) : stream[i] = 10}
    IN  IF ends = {} THEN -1
        ELSE LET n == CHOOSE i \in ends : \A j \in ends : i <= j
             IN  IF n < 4 THEN -2
                 ELSE IF SubSeq(stream, n - 3, n) = <<13, 10, 13, 10>> THEN n
                 ELSE read_http_loop(stream, n)

\* read_http_bytes: the lines are read through a BufReader made for the
\* call and dropped at its end. filled is the number of bytes the BufReader
\* had taken from the stream by then: at least the lines it handed out, and
\* whatever else had arrived when it filled its buffer; rest is what the
\* stream still holds
read_http_bytes(stream, filled) ==
    LET end == read_http_loop(stream, 0)
    IN  IF end = -1 THEN [status |-> "pending"]
        ELSE IF end = -2
        THEN [status |-> "panic",
              rest |-> SubSeq(stream, filled + 1, Len(stream))]
        ELSE [status |-> "ok", buf |-> SubSeq(stream, 1, end),
              rest |-> SubSeq(stream, filled + 1, Len(stream))]

\* read_frame_bytes on the bytes the stream holds. read_exact waits while
\* fewer bytes than asked are there ("pending"); rest is what is left unread.
read_frame_bytes(stream) ==
    IF Len(stream) < 2 THEN [status |-> "pending"]
    ELSE
    LET header_buf == SubSeq(stream, 1, 2)
        header == FrameHeader_try_from(header_buf)
    IN  IF ~header.ok
        THEN [status |-> "err", err |-> "InvalidData",
              rest |-> SubSeq(stream, 3, Len(stream))]
        ELSE
        LET kind == header.val.payload_len.kind
            payload_len_bytes == CASE kind = "ExactU8" -> 0
                                   [] kind = "HintU16" -> 2
                                   [] kind = "HintU64" -> 8
        IN  IF Len(stream) < 2 + payload_len_bytes
            THEN [status |-> "pending"]
            ELSE
            LET payload_len ==
                    IF kind = "ExactU8" THEN header.val.payload_len.n
                    ELSE from_be_bytes(SubSeq(stream, 3, 2 + payload_len_bytes))
                total == frame_len(payload_len_bytes, header.val.masked)
                         + payload_len
            IN  IF Len(stream) < total THEN [status |-> "pending"]
                ELSE [status |-> "ok",
                      \* frame_vec: zeroed, then the key, the payload and the
                      \* 2 header bytes are copied in
                      buf |-> header_buf
                              \o Zeros(payload_len_bytes)
                              \o SubSeq(stream, 3 + payload_len_bytes, total),
                      rest |-> SubSeq(stream, total + 1, Len(stream))]

\* WsRecvHalf<S, T>::read_frame_bytes on a stream that may have ended (or
\* failed): a read_exact that cannot be filled returns the error after
\* taking what was there
WsRecv_read_frame_bytes(stream, ended) ==
    LET data == read_frame_bytes(stream)
    IN  IF data.status = "pending" /\ ended
        THEN [status |-> "err", err |-> "UnexpectedEof", rest |-> <<>>]
        ELSE data

\* receive calling frame.mask() on both roles
unmasks_BothRoles(side) == TRUE

\* whether receive of this side calls frame.mask() on each frame
unmasks(side) == side = "Client"

\* the rest of one iteration with the loop left at every frame
receive_frame_NoBuffering(frames, frame) ==
    [done |-> TRUE, result |-> Message_try_from_Frame(frame)]

\* the rest of one iteration of the loop of receive, once a frame is decoded
\* (and unmasked): frames is the Vec accumulated by the earlier iterations
receive_frame(frames, frame) ==
    IF frames = <<>> /\ frame.header.fin
    THEN [done |-> TRUE, result |-> Message_try_from_Frame(frame)]
    ELSE IF frame.header.fin
    THEN [done |-> TRUE,
          result |-> Message_try_from_Frames(Append(frames, frame))]
    ELSE [done |-> FALSE, frames |-> Append(frames, frame)]

\* one iteration once Frame::try_from returned decoded: the Acceptor (Client)
\* calls frame.mask(), which panics on a frame without a key
receive_decode(side, frames, decoded) ==
    IF ~decoded.ok
    THEN [done |-> TRUE, result |-> Err(ProtocolViolated("ProtocolError"))]
    ELSE IF ~unmasks(side) THEN receive_frame(frames, decoded.val)
    ELSE IF ~decoded.val.masking_key.some
    THEN [done |-> TRUE, result |-> Panic]
    ELSE receive_frame(frames, Frame_mask(decoded.val).val)

\* one iteration that answers a failed read with the frames read so far
receive_iteration_ReturnsPartial(side, frames, data) ==
    IF data.status = "err"
    THEN [done |-> TRUE,
          result |-> IF frames = <<>>
                     THEN Err(ProtocolViolated("CloseAbnormal"))
                     ELSE Message_try_from_Frames(frames)]
    ELSE receive_decode(side, frames, Frame_try_from(data.buf))

\* one iteration of the loop of WsRecvHalf<S, T>::receive, given what
\* read_frame_bytes returned: the call is done with a result, or goes on to
\* read the next frame with a longer Vec
receive_iteration(side, frames, data) ==
    IF data.status = "err"
    THEN [done |-> TRUE, result |-> Err(ProtocolViolated("CloseAbnormal"))]
    ELSE receive_decode(side, frames, Frame_try_from(data.buf))

\* send of the Initiator with the frame.mask() call left out
send_Server_NoMask(message, key) ==
    Frame_into_bytes(Frame_from_Message(message, key))

\* WsSendHalf<Server, T>::send: the bytes handed to send_raw
send_Server(message, key) ==
    Frame_into_bytes(Frame_mask(Frame_from_Message(message, key)).val)

\* send of the Acceptor with a frame.mask() call added
send_Client_Masked(message, key) ==
    Frame_into_bytes(Frame_mask(Frame_from_Message(message, key)).val)

\* WsSendHalf<Client, T>::send: the bytes handed to send_raw
send_Client(message, key) ==
    Frame_into_bytes(Frame_from_Message(message, key))

-----------------------------------------------------------------------------
(* handshake.rs *)

(* An HTTP header line is [name, sep, value]: the text before the first    *)
(* colon folded to lower case, the separator that follows it (": " or ":") *)
(* and the rest as a sequence of ASCII bytes, folded to lower case except  *)
(* for the values of Sec-WebSocket-Key and Sec-WebSocket-Accept. A request *)
(* or response is the set of its header lines, at most one per name.       *)
Line(name, sep, value) == [name |-> name, sep |-> sep, value |-> value]

\* str::as_bytes of the header values that occur in the model
ascii(text) ==
    CASE text = "websocket" -> <<119, 101, 98, 115, 111, 99, 107, 101, 116>>
      [] text = "upgrade" -> <<117, 112, 103, 114, 97, 100, 101>>
      [] text = "13" -> <<49, 51>>
      [] text = "idk" -> <<105, 100, 107>>
      [] text = "h2c" -> <<104, 50, 99>>
      [] text = "keep-alive" -> <<107, 101, 101, 112, 45, 97, 108, 105, 118, 101>>
      [] text = "8" -> <<56>>

\* l.eq_ignore_ascii_case("<name>: <value>")
eq_ignore_ascii_case(l, name, value) ==
    l.name = name /\ l.sep = ": " /\ l.value = value

\* l.to_ascii_lowercase().starts_with("<name>:")
starts_with(l, name) == l.name = name

\* validate_upgrade_headers
validate_upgrade_headers(lines) ==
    /\ \E l \in lines : eq_ignore_ascii_case(l, "upgrade", ascii("websocket"))
    /\ \E l \in lines : eq_ignore_ascii_case(l, "connection", ascii("upgrade"))
    /\ \E l \in lines : eq_ignore_ascii_case(l, "sec-websocket-version", ascii("13"))
    /\ \E l \in lines : starts_with(l, "host")
    /\ \E l \in lines : starts_with(l, "sec-websocket-key")

(* Sha1 of the sha1 crate (FIPS 180-4) and STANDARD.encode of the base64    *)
(* crate (RFC 4648), on sequences of bytes.                                *)
(* A u32 is the pair <<high 16 bits, low 16 bits>>.                        *)

\* one round on s = <<a, b, c, d, e, w, t>>: w holds the last 16 words of
\* the message schedule, t counts the rounds done
sha1_round(s) ==
    LET xor16(a, b) ==
            (BitXor(a \div 256, b \div 256) * 256) + BitXor(a % 256, b % 256)
        \* a + b = (a ^ b) + 2 * (a & b)
        and16(a, b) == ((a + b) - xor16(a, b)) \div 2
        u32_xor(x, y) == <<xor16(x[1], y[1]), xor16(x[2], y[2])>>
        u32_and(x, y) == <<and16(x[1], y[1]), and16(x[2], y[2])>>
        u32_not(x) == <<65535 - x[1], 65535 - x[2]>>
        wrapping_add(x, y) ==
            <<(x[1] + y[1] + ((x[2] + y[2]) \div 65536)) % 65536,
              (x[2] + y[2]) % 65536>>
        \* rotate_left(n) for 0 < n < 16 after swapping the halves when swap
        rotate_left(x, swap, n) ==
            LET y == IF swap THEN <<x[2], x[1]>> ELSE x
            IN  <<((y[1] * (2 ^ n)) % 65536) + (y[2] \div (2 ^ (16 - n))),
                  ((y[2] * (2 ^ n)) % 65536) + (y[1] \div (2 ^ (16 - n)))>>
        w == s[6]
        t == s[7]
        wt == IF t < 16 THEN w[t + 1]
              ELSE rotate_left(
                       u32_xor(u32_xor(w[((t - 3) % 16) + 1], w[((t - 8) % 16) + 1]),
                               u32_xor(w[((t - 14) % 16) + 1], w[(t % 16) + 1])),
                       FALSE, 1)
        f == IF t < 20
             THEN u32_xor(u32_and(s[2], s[3]), u32_and(u32_not(s[2]), s[4]))
             ELSE IF t >= 40 /\ t < 60
             THEN u32_xor(u32_xor(u32_and(s[2], s[3]), u32_and(s[2], s[4])),
                          u32_and(s[3], s[4]))
             ELSE u32_xor(u32_xor(s[2], s[3]), s[4])
        \* 0x5A827999, 0x6ED9EBA1, 0x8F1BBCDC, 0xCA62C1D6
        k == IF t < 20 THEN <<23170, 31129>>
             ELSE IF t < 40 THEN <<28377, 60321>>
             ELSE IF t < 60 THEN <<36635, 48348>>
             ELSE <<51810, 49622>>
        temp == wrapping_add(wrapping_add(rotate_left(s[1], FALSE, 5), f),
                             wrapping_add(wrapping_add(s[5], k), wt))
    IN  <<temp, s[1], rotate_left(s[2], TRUE, 14), s[3], s[4],
          [w EXCEPT ![(t % 16) + 1] = wt], t + 1>>

\* the 80 rounds of one block
RECURSIVE sha1_rounds(_)
sha1_rounds(s) == IF s[7] = 80 THEN s ELSE sha1_rounds(sha1_round(s))

\* the hash state after the 64-byte blocks of m, starting from h
RECURSIVE sha1_blocks(_, _)
sha1_blocks(h, m) ==
    IF m = <<>> THEN h
    ELSE LET w == [i \in 1..16 |->
                      <<(m[(4 * i) - 3] * 256) + m[(4 * i) - 2],
                        (m[(4 * i) - 1] * 256) + m[4 * i]>>]
             s == sha1_rounds(h \o <<w, 0>>)
         IN  sha1_blocks([i \in 1..5 |->
                             <<(h[i][1] + s[i][1]
                                   + ((h[i][2] + s[i][2]) \div 65536)) % 65536,
                               (h[i][2] + s[i][2]) % 65536>>],
                         SubSeq(m, 65, Len(m)))

\* Sha1::new, update(m), finalize: m is padded with 0x80, zeros up to 56
\* mod 64 and its length in bits, hashed from the initial state
\* 0x67452301, 0xEFCDAB89, 0x98BADCFE, 0x10325476, 0xC3D2E1F0
Sha1(m) ==
    LET zeros == (119 - (Len(m) % 64)) % 64
        bits == Len(m) * 8
        padded == m \o <<128>> \o [i \in 1..zeros |-> 0]
                    \o <<0, 0, 0, 0, (bits \div 16777216) % 256,
                         (bits \div 65536) % 256, (bits \div 256) % 256, bits % 256>>
        h == sha1_blocks(<<<<26437, 8961>>, <<61389, 43913>>, <<39098, 56574>>,
                           <<4146, 21622>>, <<50130, 57840>>>>, padded)
    IN  [i \in 1..20 |->
            LET half == h[(i + 3) \div 4][(((i - 1) % 4) \div 2) + 1]
            IN  IF i % 2 = 1 THEN half \div 256 ELSE half % 256]

\* base64::engine::general_purpose::STANDARD.encode
RECURSIVE base64_encode(_)
base64_encode(s) ==
    IF s = <<>> THEN <<>>
    ELSE LET \* the character of the alphabet A-Z a-z 0-9 + / for a 6-bit value
             char(v) == IF v < 26 THEN 65 + v
                        ELSE IF v < 52 THEN 71 + v
                        ELSE IF v < 62 THEN v - 4
                        ELSE IF v = 62 THEN 43 ELSE 47
             n == Len(s)
             b1 == s[1]
             b2 == IF n >= 2 THEN s[2] ELSE 0
             b3 == IF n >= 3 THEN s[3] ELSE 0
         IN  <<char(b1 \div 4),
               char(((b1 % 4) * 16) + (b2 \div 16)),
               IF n >= 2 THEN char(((b2 % 16) * 4) + (b3 \div 64)) ELSE 61,
               IF n >= 3 THEN char(b3 % 64) ELSE 61>>
             \o (IF n > 3 THEN base64_encode(SubSeq(s, 4, n)) ELSE <<>>)

\* SEC_WS_MAGIC: "258EAFA5-E914-47DA-95CA-C5AB0DC85B11"
SEC_WS_MAGIC ==
    <<50, 53, 56, 69, 65, 70, 65, 53, 45, 69, 57, 49, 52, 45, 52, 55, 68, 65,
      45, 57, 53, 67, 65, 45, 67, 53, 65, 66, 48, 68, 67, 56, 53, 66, 49, 49>>

\* generate_sec_key: the base64 text of the 16 random bytes nonce
generate_sec_key(nonce) == base64_encode(nonce)

\* generate_response_key that hashes the key without SEC_WS_MAGIC
generate_response_key_KeyOnly(key) == base64_encode(Sha1(key))

\* generate_response_key: base64(SHA-1(key + SEC_WS_MAGIC))
generate_response_key(key) == base64_encode(Sha1(key \o SEC_WS_MAGIC))

\* the response try_upgrade of the Acceptor formats
SwitchingProtocols(accept) ==
    [status |-> "101 Switching Protocols",
     lines |-> {Line("upgrade", ": ", ascii("websocket")),
                Line("connection", ": ", ascii("upgrade")),
                Line("sec-websocket-accept", ": ", accept)}]

\* impl IntoWebsocket for WsStream<Client>: try_upgrade on what the peer
\* wrote; written is what send_raw wrote, if anything
try_upgrade_Client(request) ==
    IF request.kind = "eof"
    THEN [result |-> Err("UnexpectedEof"), written |-> None]
    ELSE IF request.kind = "invalid_utf8"
    THEN [result |-> Err("InvalidData"), written |-> None]
    ELSE
    LET validated == validate_upgrade_headers(request.lines)  \* value dropped
        key_lines == {l \in request.lines : starts_with(l, "sec-websocket-key")}
    IN  IF key_lines = {} THEN [result |-> Panic, written |-> None]
        ELSE LET l == CHOOSE l \in key_lines : TRUE
             IN  IF l.sep /= ": " THEN [result |-> Panic, written |-> None]
                 ELSE [result |-> Ok("unit"),
                       written |-> Some(SwitchingProtocols(
                                            generate_response_key(l.value)))]

\* the request try_upgrade of the Initiator formats
UpgradeRequest(sec_key) ==
    [kind |-> "http",
     lines |-> {Line("host", ": ", ascii("idk")),
                Line("upgrade", ": ", ascii("websocket")),
                Line("connection", ": ", ascii("upgrade")),
                Line("sec-websocket-key", ": ", sec_key),
                Line("sec-websocket-version", ": ", ascii("13"))}]

\* impl IntoWebsocket for WsStream<Server>: try_upgrade with the key
\* generate_sec_key returned, on the response the peer wrote
try_upgrade_Server(sec_key, response) ==
    LET written == Some(UpgradeRequest(sec_key))
    IN  IF response.kind = "eof"
        THEN [result |-> Err("UnexpectedEof"), written |-> written]
        ELSE IF response.kind = "invalid_utf8"
        THEN [result |-> Err("InvalidData"), written |-> written]
        ELSE
        LET accept_lines ==
                {l \in response.lines : starts_with(l, "sec-websocket-accept")}
        IN  IF accept_lines = {}
            THEN [result |-> Err("InvalidData"), written |-> written]
            ELSE LET l == CHOOSE l \in accept_lines : TRUE
                 IN  IF l.sep /= ": "
                     THEN [result |-> Panic, written |-> written]
                     ELSE IF l.value /= generate_response_key(sec_key)
                     THEN [result |-> Err("InvalidData"), written |-> written]
                     ELSE [result |-> Ok("unit"), written |-> written]

-----------------------------------------------------------------------------
(* server/src/main.rs: the registry of the chat server. A SocketAddr is    *)
(* its port. A ClientData is [name, tx]: tx names the connection whose     *)
(* write half it owns, and out[tx] is what was sent through that half.     *)
(* The colors are left out.                                                *)

\* RANDOM_NAMES, the array the iterator cycles through
RANDOM_NAMES ==
    <<"Anonymous Cat", "Anonymous Dog", "Anonymous Lion", "Anonymous Fox",
      "Anonymous Bear">>

\* protocol::ServerMessage
AuthSuccess(maybe_token) == [kind |-> "AuthSuccess", token |-> maybe_token]
PropagateMessage(sender, text) ==
    [kind |-> "PropagateMessage", sender |-> sender, text |-> text]
ServerNotification(name, text) ==
    [kind |-> "ServerNotification", text |-> <<name, text>>]

\* Clients::generate_token: address.to_string()
generate_token(address) == <<"127.0.0.1:", address>>

\* Clients::by_token
by_token(clients, token) ==
    IF token \in DOMAIN clients.token_map
          /\ clients.token_map[token] \in DOMAIN clients.addr_map
    THEN Some(clients.addr_map[clients.token_map[token]])
    ELSE None

\* Clients::try_connect: the registry afterwards and the Option<Token>
try_connect(clients, address, client) ==
    IF \E a \in DOMAIN clients.addr_map :
          clients.addr_map[a].name = client.name
    THEN [clients |-> clients, token |-> None]
    ELSE LET inserted ==
                 [a \in DOMAIN clients.addr_map \cup {address} |->
                     IF a = address THEN client ELSE clients.addr_map[a]]
             token == generate_token(address)
         IN  IF address \notin DOMAIN clients.addr_map
             THEN [clients |->
                      [addr_map |-> inserted,
                       token_map |->
                           [t \in DOMAIN clients.token_map \cup {token} |->
                               IF t = token THEN address
                               ELSE clients.token_map[t]]],
                   token |-> Some(token)]
             ELSE [clients |-> [clients EXCEPT !.addr_map = inserted],
                   token |-> None]

\* Clients::disconnect
disconnect(clients, address) ==
    [addr_map |-> [a \in DOMAIN clients.addr_map \ {address} |->
                      clients.addr_map[a]],
     token_map |-> [t \in {u \in DOMAIN clients.token_map :
                              clients.token_map[u] /= address} |->
                       clients.token_map[t]]]

\* Clients::send_to_addr: the io::Result and the outboxes afterwards. The
\* write through a half in fails returns an error and delivers nothing.
send_to_addr(clients, out, address, message, fails) ==
    IF address \notin DOMAIN clients.addr_map
    THEN [result |-> Err("NotFound"), out |-> out]
    ELSE IF clients.addr_map[address].tx \in fails
    THEN [result |-> Err("BrokenPipe"), out |-> out]
    ELSE [result |-> Ok("unit"),
          out |-> [out EXCEPT ![clients.addr_map[address].tx] =
                                  Append(@, message)]]

\* the for loop of broadcast and broadcast_except_one: order is the order
\* in which the HashMap yields its entries, skip the addresses passed
\* over; tx.send(..).await? returns at the first write that fails
RECURSIVE broadcast_loop(_, _, _, _, _, _, _)
broadcast_loop(clients, out, message, order, fails, skip, i) ==
    IF i > Len(order) THEN [result |-> Ok("unit"), out |-> out]
    ELSE IF order[i] \notin DOMAIN clients.addr_map \/ order[i] \in skip
    THEN broadcast_loop(clients, out, message, order, fails, skip, i + 1)
    ELSE IF clients.addr_map[order[i]].tx \in fails
    THEN [result |-> Err("BrokenPipe"), out |-> out]
    ELSE broadcast_loop(clients,
             [out EXCEPT ![clients.addr_map[order[i]].tx] = Append(@, message)],
             message, order, fails, skip, i + 1)

\* Clients::broadcast_except_one: the io::Result and the outboxes afterwards
broadcast_except_one(clients, out, address, message, order, fails) ==
    broadcast_loop(clients, out, message, order, fails, {address}, 1)

\* Clients::broadcast: the io::Result and the outboxes afterwards
broadcast(clients, out, message, order, fails) ==
    broadcast_loop(clients, out, message, order, fails, {}, 1)

-----------------------------------------------------------------------------
(* SpecCodec: the conversions of frame.rs and message.rs applied to inputs *)
(* that Init draws from bounded sets.                                      *)

MaxPayload == 2     \* longest generated Frame payload, in bytes
MaxFrames == 3      \* longest generated Vec<Frame>

CodecBytes == {0, 97, 255}
CodecKeys == {12345, 287454020}         \* 0x00003039, 0x11223344
FragmentPayloads == {<<97, 98>>, <<195>>, <<169>>}     \* "ab", the halves of U+00E9
FragmentOpcodes == {"Text", "Binary", "Continue"}
HeaderLens == {0, 1, 124, 125, 126, 127, 65534, 65535, 65536, 65537, 2147483647}

SeqsUpTo(S, n) == UNION {[1..k -> S] : k \in 0..n}

\* a Frame whose payload has the length its header declares, in class kind
MakeFrame(fin, rsv, opcode, kind, key, payload) ==
    [header |-> [fin |-> fin, rsv |-> rsv, opcode |-> opcode,
                 masked |-> key.some,
                 payload_len |-> [kind |-> kind, n |-> Len(payload)]],
     masking_key |-> key,
     payload |-> payload]

\* the frames of the tests of frame.rs and of the literal example
\* (fin=false, Binary, unmasked, 4 payload bytes)
ExampleFrames ==
    { MakeFrame(FALSE, 0, "Binary", "ExactU8", None, <<222, 173, 190, 239>>),
      MakeFrame(FALSE, 0, "Binary", "ExactU64", None, <<222, 173, 190, 239>>),
      MakeFrame(TRUE, 3, "Continue", "ExactU8", Some(12345), <<255, 0, 255>>),
      MakeFrame(TRUE, 0, "Text", "ExactU8", None, <<97, 98, 99, 100, 101>>),
      \* Close frames: status 1002 alone, with "bye", with a byte that is
      \* not UTF-8, with the first half of U+00E9
      MakeFrame(TRUE, 0, "Close", "ExactU8", Some(12345), <<3, 234>>),
      MakeFrame(TRUE, 0, "Close", "ExactU8", Some(12345),
                <<3, 234, 98, 121, 101>>),
      MakeFrame(TRUE, 0, "Close", "ExactU8", Some(12345), <<3, 234, 255>>),
      MakeFrame(TRUE, 0, "Close", "ExactU8", None, <<3, 232, 195>>) }

ValidFrames ==
    { MakeFrame(fin, rsv, opcode, kind, key, payload) :
        fin \in BOOLEAN, rsv \in {0, 3}, opcode \in Opcodes,
        kind \in {"ExactU8", "ExactU16", "ExactU64"},
        key \in {None} \cup {Some(k) : k \in CodecKeys},
        payload \in SeqsUpTo(CodecBytes, MaxPayload) }
    \cup ExampleFrames

Fragment(fin, opcode, payload) ==
    MakeFrame(fin, 0, opcode, PayloadLen_from(Len(payload)).kind, None, payload)

\* Text "ab", Continue "cd", final Continue "ef"
ExampleFragments ==
    << Fragment(FALSE, "Text", <<97, 98>>),
       Fragment(FALSE, "Continue", <<99, 100>>),
       Fragment(TRUE, "Continue", <<101, 102>>) >>

FragmentLists ==
    SeqsUpTo({ Fragment(fin, opcode, payload) :
                 fin \in BOOLEAN, opcode \in FragmentOpcodes,
                 payload \in FragmentPayloads }, MaxFrames)
    \cup {ExampleFragments}

MaxOver == 1        \* bytes by which a generated payload exceeds a limit
MaxStream == 2      \* frames written back to back on one stream

\* n bytes: "aaa..." for a String, 0x61 0xff 0x61 ... for a Vec<u8>
Letters(n) == [i \in 1..n |-> 97]
Octets(n) == [i \in 1..n |-> IF i % 2 = 0 THEN 255 ELSE 97]

\* the reasons a Close may carry: "", "a", "bye", U+00E9, strings around
\* the 123-byte limit, and one whose bytes 123 and 124 are U+00E9
CloseReasons ==
    {<<>>, <<97>>, <<98, 121, 101>>, <<195, 169>>}
    \cup {Letters(n) : n \in (CLOSE_REASON_MAX - 1)..(CLOSE_REASON_MAX + MaxOver)}
    \cup {Letters(CLOSE_REASON_MAX - 1) \o <<195, 169>>}

\* payload lengths around the 125-byte limit of a control frame
PayloadLens == {0, 1} \cup (CONTROL_PAYLOAD_MAX - 1)..(CONTROL_PAYLOAD_MAX + MaxOver)

CodecMessages ==
    {Close(code, Some(reason)) : code \in StatusCodes, reason \in CloseReasons}
    \cup {Close(code, None) : code \in StatusCodes}
    \cup {Ping(Octets(n)) : n \in PayloadLens}
    \cup {Pong(Octets(n)) : n \in PayloadLens}
    \cup {Binary(Octets(n)) : n \in PayloadLens}
    \cup {Text(Letters(n)) : n \in PayloadLens}

\* the u16 values given to StatusCode::from
StatusNumbers == {0, 255, 256, 65535} \cup 900..1100

\* the buffers given to Frame::try_from: every prefix of an encoded frame
\* (the final frames without reserved bits, and the example frames), as it
\* is and with byte 0 replaced by one whose opcode nibble is reserved
ReservedOpcodeBytes == {3, 139, 255}
Prefixes(bytes) == {SubSeq(bytes, 1, k) : k \in 0..Len(bytes)}
WithByte0(bytes, b) == IF bytes = <<>> THEN bytes ELSE [bytes EXCEPT ![1] = b]
RawBuffers ==
    LET frames == {f \in ValidFrames :
                      (f.header.fin /\ f.header.rsv = 0) \/ f \in ExampleFrames}
        whole == UNION {Prefixes(Frame_into_bytes(f)) : f \in frames}
    IN  whole \cup {WithByte0(p, b) : p \in whole, b \in ReservedOpcodeBytes}

\* the frames a peer writes on a stream: every length class, with and
\* without a masking key
StreamFrames ==
    { MakeFrame(TRUE, 0, opcode, kind, key, payload) :
        opcode \in {"Binary", "Ping"},
        kind \in {"ExactU8", "ExactU16", "ExactU64"},
        key \in {None, Some(12345)},
        payload \in {<<>>, <<97, 255>>} }
StreamFrameLists ==
    UNION {[1..k -> StreamFrames] : k \in 1..MaxStream}

\* the bytes on the stream once every frame of frames is written
RECURSIVE StreamOf(_)
StreamOf(frames) ==
    IF frames = <<>> THEN <<>>
    ELSE Frame_into_bytes(frames[1]) \o StreamOf(Tail(frames))

\* what a peer writes as its handshake message: "GET /\r\nHost: a\r\n\r\n",
\* "HTTP/1.1 101\r\n\r\n", and a message that starts with the blank line
HttpHeads ==
    { <<71, 69, 84, 32, 47, 13, 10, 72, 111, 115, 116, 58, 32, 97, 13, 10, 13, 10>>,
      <<72, 84, 84, 80, 47, 49, 46, 49, 32, 49, 48, 49, 13, 10, 13, 10>>,
      <<13, 10, 13, 10>> }

\* the frames the peer writes right after its handshake message
HttpFrameLists ==
    {<<>>} \cup {<<f>> : f \in {g \in StreamFrames :
                                    g.header.payload_len.kind = "ExactU8"}}

NoFrame == MakeFrame(TRUE, 0, "Binary", "ExactU8", None, <<>>)
NoResult == Err("none")
NoRequest == [kind |-> "none"]
NoMessage == Binary(<<>>)
NoCall == [op |-> "none"]

\* the parts of the state a specification does not use stay at these values
CodecIdle ==
    /\ c_case = "none" /\ c_step = "init"
    /\ c_frame = NoFrame /\ c_cur = NoFrame /\ c_frames = <<>> /\ c_len = 0
    /\ c_message = NoMessage /\ c_code = 0 /\ c_read = <<>>
    /\ c_bytes = <<>> /\ c_out = NoResult
ConnIdle ==
    /\ wire = [s \in Sides |-> <<>>]
    /\ sent = <<>>
    /\ received = [s \in Sides |-> <<>>]
    /\ rx_frames = [s \in Sides |-> <<>>]
    /\ closed = [s \in Sides |-> FALSE]
ServerIdle ==
    /\ sv_clients = <<>> /\ sv_lock = None /\ sv_task = <<>>
    /\ sv_out = <<>> /\ sv_names = 0 /\ sv_reads = 0
    /\ rg_call = NoCall

AppIdle ==
    /\ ap_stack = <<>> /\ ap_focus = 0 /\ ap_queue = <<>>
    /\ ap_quit = FALSE /\ ap_panic = FALSE /\ ap_events = 0

TasksIdle ==
    /\ ct_main = "none" /\ ct_token = FALSE /\ ct_emitter = "none"
    /\ ct_receiver = "none" /\ ct_sender = "none"
    /\ ct_chan = [len |-> 0, closed |-> FALSE] /\ ct_conn = "none"

ClientIdle == AppIdle /\ TasksIdle

HandshakeIdle ==
    /\ hs_request = NoRequest /\ hs_written = None
    /\ hs_result = NoResult /\ hs_task = FALSE /\ hs_key = None

InitCodec ==
    /\ c_step = "init"
    /\ c_out = NoResult
    /\ c_read = <<>>
    /\ c_case \in {"frame", "frames", "len", "raw", "message", "code", "stream",
                   "http"}
    /\ c_frame \in (IF c_case = "frame" THEN ValidFrames ELSE {NoFrame})
    /\ c_frames \in (CASE c_case = "frames" -> FragmentLists
                      [] c_case = "stream" -> StreamFrameLists
                      [] c_case = "http" -> HttpFrameLists
                      [] OTHER -> {<<>>})
    /\ c_len \in (IF c_case = "len" THEN HeaderLens ELSE {0})
    /\ c_message \in (IF c_case = "message" THEN CodecMessages ELSE {NoMessage})
    /\ c_code \in (IF c_case = "code" THEN StatusNumbers ELSE {0})
    /\ c_bytes \in (CASE c_case = "raw" -> RawBuffers
                     [] c_case = "stream" -> {StreamOf(c_frames)}
                     [] c_case = "http" ->
                            {head \o StreamOf(c_frames) : head \in HttpHeads}
                     [] OTHER -> {<<>>})
    /\ c_cur = c_frame
    /\ ConnIdle /\ HandshakeIdle /\ ServerIdle /\ ClientIdle

\* let bytes: Vec<u8> = frame.into();
Encode ==
    /\ c_case = "frame" /\ c_step = "init"
    /\ c_bytes' = Frame_into_bytes(c_frame)
    /\ c_step' = "encoded"
    /\ UNCHANGED <<codecInputs, c_code, c_read, c_cur, c_out>>
    /\ UNCHANGED <<connVars, hsVars, svVars, rg_call, apVars, ctVars>>

\* let frame: Frame = bytes.try_into();
Decode ==
    /\ c_case = "frame" /\ c_step = "encoded"
    /\ c_out' = Frame_try_from(c_bytes)
    /\ c_step' = "decoded"
    /\ UNCHANGED <<codecInputs, c_code, c_read, c_cur, c_bytes>>
    /\ UNCHANGED <<connVars, hsVars, svVars, rg_call, apVars, ctVars>>

\* frame.mask(); a second call unmasks
MaskFrame ==
    /\ c_case = "frame" /\ c_step \in {"init", "mask1"}
    /\ LET r == Frame_mask(c_cur)
       IN  IF r.ok
           THEN /\ c_cur' = r.val
                /\ c_step' = IF c_step = "init" THEN "mask1" ELSE "mask2"
                /\ UNCHANGED c_out
           ELSE /\ c_out' = r
                /\ c_step' = "panicked"
                /\ UNCHANGED c_cur
    /\ UNCHANGED <<codecInputs, c_code, c_read, c_bytes>>
    /\ UNCHANGED <<connVars, hsVars, svVars, rg_call, apVars, ctVars>>

\* let message: Result<Message, _> = frame.try_into();
FrameToMessage ==
    /\ c_case = "frame" /\ c_step = "init"
    /\ c_out' = Message_try_from_Frame(c_frame)
    /\ c_step' = "message"
    /\ UNCHANGED <<codecInputs, c_code, c_read, c_cur, c_bytes>>
    /\ UNCHANGED <<connVars, hsVars, svVars, rg_call, apVars, ctVars>>

\* let message: Result<Message, _> = frames.try_into();
FramesToMessage ==
    /\ c_case = "frames" /\ c_step = "init"
    /\ c_out' = Message_try_from_Frames(c_frames)
    /\ c_step' = "assembled"
    /\ UNCHANGED <<codecInputs, c_code, c_read, c_cur, c_bytes>>
    /\ UNCHANGED <<connVars, hsVars, svVars, rg_call, apVars, ctVars>>

\* let bytes: Vec<u8> = FrameHeader::new(fin, opcode, masked, len).into();
EncodeHeader ==
    /\ c_case = "len" /\ c_step = "init"
    /\ \E fin \in BOOLEAN, opcode \in Opcodes, masked \in BOOLEAN :
          LET header == FrameHeader_new(fin, opcode, masked, c_len)
          IN  /\ c_out' = Ok(header)
              /\ c_bytes' = FrameHeader_into_bytes(header)
    /\ c_step' = "header"
    /\ UNCHANGED <<codecInputs, c_code, c_read, c_cur>>
    /\ UNCHANGED <<connVars, hsVars, svVars, rg_call, apVars, ctVars>>

\* let header: FrameHeader = bytes.as_slice().try_into();
DecodeHeader ==
    /\ c_case = "frame" /\ c_step = "encoded"
    /\ c_out' = FrameHeader_try_from(c_bytes)
    /\ c_step' = "header_decoded"
    /\ UNCHANGED <<codecInputs, c_code, c_read, c_cur, c_bytes>>
    /\ UNCHANGED <<connVars, hsVars, svVars, rg_call, apVars, ctVars>>

\* let frame: Result<Frame, FrameError> = buffer.try_into();
DecodeRaw ==
    /\ c_case = "raw" /\ c_step = "init"
    /\ c_out' = Frame_try_from(c_bytes)
    /\ c_step' = "raw_decoded"
    /\ UNCHANGED <<codecInputs, c_code, c_read, c_cur, c_bytes>>
    /\ UNCHANGED <<connVars, hsVars, svVars, rg_call, apVars, ctVars>>

\* let frame: Frame = message.into();
MessageToFrame ==
    /\ c_case = "message" /\ c_step = "init"
    /\ \E key \in CodecKeys : c_cur' = Frame_from_Message(c_message, key)
    /\ c_step' = "framed"
    /\ UNCHANGED <<codecInputs, c_code, c_read, c_bytes, c_out>>
    /\ UNCHANGED <<connVars, hsVars, svVars, rg_call, apVars, ctVars>>

\* let message: Result<Message, _> = frame.try_into(); on that frame
FrameBack ==
    /\ c_case = "message" /\ c_step = "framed"
    /\ c_out' = Message_try_from_Frame(c_cur)
    /\ c_step' = "message_back"
    /\ UNCHANGED <<codecInputs, c_code, c_read, c_cur, c_bytes>>
    /\ UNCHANGED <<connVars, hsVars, svVars, rg_call, apVars, ctVars>>

\* let code: StatusCode = number.into();
StatusFrom ==
    /\ c_case = "code" /\ c_step = "init"
    /\ c_out' = Ok(StatusCode_from(c_code))
    /\ c_step' = "status"
    /\ UNCHANGED <<codecInputs, c_code, c_read, c_cur, c_bytes>>
    /\ UNCHANGED <<connVars, hsVars, svVars, rg_call, apVars, ctVars>>

\* let number = code as u16; let code: StatusCode = number.into();
StatusBack ==
    /\ c_case = "code" /\ c_step = "status"
    /\ c_code' = StatusCode_as_u16(c_out.val)
    /\ c_out' = Ok(StatusCode_from(c_code'))
    /\ c_step' = "status_back"
    /\ UNCHANGED <<codecInputs, c_read, c_cur, c_bytes>>
    /\ UNCHANGED <<connVars, hsVars, svVars, rg_call, apVars, ctVars>>

\* self.read_http_bytes().await of try_upgrade, once the lines are there
ReadHttp ==
    /\ c_case = "http" /\ c_step = "init"
    /\ \E filled \in 0..Len(c_bytes) :
          LET r == read_http_bytes(c_bytes, filled)
          IN  /\ r.status /= "pending"
              /\ filled >= read_http_loop(c_bytes, 0)
              /\ c_out' = IF r.status = "ok" THEN Ok(r.buf) ELSE Panic
              /\ c_bytes' = r.rest
    /\ c_step' = "http_read"
    /\ UNCHANGED <<codecInputs, c_code, c_read, c_cur>>
    /\ UNCHANGED <<connVars, hsVars, svVars, rg_call, apVars, ctVars>>

\* read_frame_bytes(&mut stream).await, once the bytes it waits for are there
ReadFrame ==
    /\ \/ c_case = "stream"
       \/ c_case = "http" /\ c_step /= "init" /\ c_out.ok
    /\ LET data == read_frame_bytes(c_bytes)
       IN  /\ data.status /= "pending"
           /\ c_bytes' = data.rest
           /\ c_read' = Append(c_read, IF data.status = "ok" THEN Ok(data.buf)
                                       ELSE Err(data.err))
    /\ c_step' = "read"
    /\ UNCHANGED <<codecInputs, c_code, c_cur, c_out>>
    /\ UNCHANGED <<connVars, hsVars, svVars, rg_call, apVars, ctVars>>

NextCodec ==
    \/ Encode
    \/ Decode
    \/ MaskFrame
    \/ FrameToMessage
    \/ FramesToMessage
    \/ EncodeHeader
    \/ DecodeHeader
    \/ DecodeRaw
    \/ MessageToFrame
    \/ FrameBack
    \/ StatusFrom
    \/ StatusBack
    \/ ReadFrame
    \/ ReadHttp

SpecCodec == InitCodec /\ [][NextCodec]_vars

-----------------------------------------------------------------------------
(* Spec: one established connection. The side tagged Server (the Initiator) *)
(* and the side tagged Client (the Acceptor) each own a send half and a     *)
(* receive half of the same duplex stream.                                  *)

MaxSends == 2       \* send calls in one behaviour, both sides together
MaxReceives == 4    \* receive calls that return on one side

ConnKeys == {12345, 287454020}
\* "aaa...", 126 bytes: the shortest payload of the 16-bit length class
LongPayload == Letters(126)
ConnMessages ==
    { Text(LongPayload), Binary(<<255, 0, 255>>), Binary(<<>>),
      Close("ProtocolError", Some(<<98, 121, 101>>)),
      Ping(<<>>), Pong(<<1>>) }

Init ==
    /\ ConnIdle
    /\ CodecIdle /\ HandshakeIdle /\ ServerIdle /\ ClientIdle

\* WsSendHalf<Server, T>::send followed by send_raw
SendServer ==
    /\ Len(sent) < MaxSends
    /\ \E message \in ConnMessages, key \in ConnKeys :
          LET binary == send_Server(message, key)
          IN  /\ wire' = [wire EXCEPT !["Server"] = @ \o binary]
              /\ sent' = Append(sent, [side |-> "Server", message |-> message,
                                       key |-> key, bytes |-> binary])
    /\ UNCHANGED <<received, rx_frames, closed, codecVars, hsVars, svVars, rg_call, apVars, ctVars>>

\* WsSendHalf<Client, T>::send followed by send_raw
SendClient ==
    /\ Len(sent) < MaxSends
    /\ \E message \in ConnMessages, key \in ConnKeys :
          LET binary == send_Client(message, key)
          IN  /\ wire' = [wire EXCEPT !["Client"] = @ \o binary]
              /\ sent' = Append(sent, [side |-> "Client", message |-> message,
                                       key |-> key, bytes |-> binary])
    /\ UNCHANGED <<received, rx_frames, closed, codecVars, hsVars, svVars, rg_call, apVars, ctVars>>

\* one iteration of the loop of receive on side s: read_frame_bytes returns
\* once the bytes of a frame are there; the call then returns a result or
\* keeps the frame and reads on
Receive(s) ==
    /\ \A i \in 1..Len(received[s]) : received[s][i] /= Panic
    /\ Len(received[s]) < MaxReceives
    /\ LET data == WsRecv_read_frame_bytes(wire[Peer(s)], closed[Peer(s)])
       IN  /\ data.status /= "pending"
           /\ wire' = [wire EXCEPT ![Peer(s)] = data.rest]
           /\ LET it == receive_iteration(s, rx_frames[s], data)
              IN  IF it.done
                  THEN /\ received' = [received EXCEPT
                                          ![s] = Append(@, it.result)]
                       /\ rx_frames' = [rx_frames EXCEPT ![s] = <<>>]
                  ELSE /\ rx_frames' = [rx_frames EXCEPT ![s] = it.frames]
                       /\ UNCHANGED received
    /\ UNCHANGED <<sent, closed, codecVars, hsVars, svVars, rg_call, apVars, ctVars>>

\* WsRecvHalf<Server, T>::receive
ReceiveServer == Receive("Server")

\* WsRecvHalf<Client, T>::receive
ReceiveClient == Receive("Client")

Next ==
    \/ SendServer
    \/ SendClient
    \/ ReceiveServer
    \/ ReceiveClient

Spec == Init /\ [][Next]_vars

-----------------------------------------------------------------------------
(* SpecReceive: one established connection on which one of the peers is not *)
(* this library: it writes frames of its own making with single writes, as  *)
(* send_raw does, and may end the stream, also in the middle of a frame.    *)
(* The other side calls receive.                                            *)

MaxRaw == 3         \* frames the peer writes in one behaviour

\* a frame as the peer tagged s puts it on the stream: towards the Acceptor
\* the payload is XORed with the key, towards the Initiator it is written
\* as it is, the way send of the Acceptor writes it
RawFrame(s, fin, opcode, payload) ==
    LET frame == MakeFrame(fin, 0, opcode, "ExactU8", Some(287454020), payload)
    IN  IF s = "Server" THEN Frame_mask(frame).val ELSE frame

\* what one write of the peer tagged s may hold: a first, middle or last
\* fragment or a whole message, a frame without a key, or a frame with the
\* reserved opcode 3
RawWrites(s) ==
    { Frame_into_bytes(RawFrame(s, fin, "Text", <<97>>)) : fin \in BOOLEAN }
    \cup { Frame_into_bytes(RawFrame(s, fin, "Binary", <<66>>)) : fin \in BOOLEAN }
    \cup { Frame_into_bytes(RawFrame(s, fin, "Continue", <<98>>)) : fin \in BOOLEAN }
    \cup { Frame_into_bytes(MakeFrame(TRUE, 0, "Text", "ExactU8", None,
                                      <<97, 98, 99, 100>>)),
           <<131, 128, 17, 34, 51, 68>> }

\* the part of a frame that is written before the stream ends: nothing, or
\* a frame cut in its header, its extended length, its key or its payload
PartialWrites ==
    { <<>>, <<129>>, <<130, 254, 0>>, <<129, 129, 17, 34>>,
      <<129, 130, 17, 34, 51, 68, 80>> }

InitReceive ==
    /\ ConnIdle
    /\ CodecIdle /\ HandshakeIdle /\ ServerIdle /\ ClientIdle

\* send_raw of the peer tagged s: write_all of the bytes of one frame
SendRaw(s) ==
    /\ Len(sent) < MaxRaw
    /\ \A i \in 1..Len(sent) : sent[i].side = s
    /\ ~closed[s] /\ ~closed[Peer(s)]
    /\ \E data \in RawWrites(s) :
          /\ wire' = [wire EXCEPT ![s] = @ \o data]
          /\ sent' = Append(sent, [side |-> s, bytes |-> data])
    /\ UNCHANGED <<received, rx_frames, closed, codecVars, hsVars, svVars, rg_call, apVars, ctVars>>

\* the stream the peer tagged s writes ends (the peer shuts down or the
\* transport fails), possibly after a part of a frame
EndOfStream(s) ==
    /\ \A i \in 1..Len(sent) : sent[i].side = s
    /\ ~closed[s] /\ ~closed[Peer(s)]
    /\ \E data \in PartialWrites :
          wire' = [wire EXCEPT ![s] = @ \o data]
    /\ closed' = [closed EXCEPT ![s] = TRUE]
    /\ UNCHANGED <<sent, received, rx_frames, codecVars, hsVars, svVars, rg_call, apVars, ctVars>>

NextReceive ==
    \/ \E s \in Sides : SendRaw(s)
    \/ \E s \in Sides : EndOfStream(s)
    \/ ReceiveServer
    \/ ReceiveClient

SpecReceive == InitReceive /\ [][NextReceive]_vars

-----------------------------------------------------------------------------
(* SpecHandshake: one connection on which the peer's part of the opening   *)
(* handshake is already written. Either the accepting side of the server's *)
(* main takes the socket and calls try_upgrade once, or the client's main  *)
(* calls try_upgrade as the Initiator with a key drawn from SecKeys.       *)

\* "dGhlIHNhbXBsZSBub25jZQ==", the text of the nonce "the sample nonce"
SampleKey ==
    <<100, 71, 104, 108, 73, 72, 78, 104, 98, 88, 66, 115, 90, 83, 66, 117,
      98, 50, 53, 106, 90, 81, 61, 61>>

HeaderChoices ==
    [upgrade : {"absent", "websocket", "h2c"},
     connection : {"absent", "upgrade", "keep-alive"},
     version : {"absent", "13", "8"},
     host : {"absent", "idk"},
     key : {"absent", "sample", "nospace"}]

\* the header lines of the request a choice describes
RequestLines(c) ==
    (IF c.upgrade = "absent" THEN {}
     ELSE {Line("upgrade", ": ", ascii(c.upgrade))})
    \cup (IF c.connection = "absent" THEN {}
          ELSE {Line("connection", ": ", ascii(c.connection))})
    \cup (IF c.version = "absent" THEN {}
          ELSE {Line("sec-websocket-version", ": ", ascii(c.version))})
    \cup (IF c.host = "absent" THEN {}
          ELSE {Line("host", ": ", ascii(c.host))})
    \cup (IF c.key = "absent" THEN {}
          ELSE IF c.key = "nospace"
          THEN {Line("sec-websocket-key", ":", SampleKey)}
          ELSE {Line("sec-websocket-key", ": ", SampleKey)})

Requests ==
    {[kind |-> "http", lines |-> RequestLines(c)] : c \in HeaderChoices}
    \cup {[kind |-> "eof"], [kind |-> "invalid_utf8"]}

\* the keys generate_sec_key returns for the 16 random bytes
\* "the sample nonce" and for 16 zero bytes
SecKeys ==
    {generate_sec_key(n) : n \in
        {<<116, 104, 101, 32, 115, 97, 109, 112, 108, 101, 32, 110, 111, 110, 99, 101>>,
         [i \in 1..16 |-> 0]}}

\* what a peer may answer to the Initiator that sent sec_key: any status
\* line, the Sec-WebSocket-Accept header left out, or written with or
\* without the space after the colon, for sec_key or for another key
Responses(sec_key) ==
    {[kind |-> "http", status |-> st,
      lines |-> {Line("upgrade", ": ", ascii("websocket")),
                 Line("connection", ": ", ascii("upgrade"))} \cup accept]
        : st \in {"101 Switching Protocols", "400 Bad Request"},
          accept \in {{}} \cup
              {{Line("sec-websocket-accept", sep, generate_response_key(k))}
                  : sep \in {": ", ":"}, k \in SecKeys}}
    \cup {[kind |-> "eof"], [kind |-> "invalid_utf8"]}

InitHandshake ==
    /\ \/ /\ hs_key = None
          /\ hs_request \in Requests
       \/ \E k \in SecKeys :
             /\ hs_key = Some(k)
             /\ hs_request \in Responses(k)
    /\ hs_written = None
    /\ hs_result = NoResult
    /\ hs_task = FALSE
    /\ CodecIdle /\ ConnIdle /\ ServerIdle /\ ClientIdle

\* server main: socket.try_upgrade().await
TryUpgrade ==
    /\ hs_key = None
    /\ hs_result = NoResult
    /\ LET r == try_upgrade_Client(hs_request)
       IN  /\ hs_result' = r.result
           /\ hs_written' = r.written
    /\ UNCHANGED <<hs_request, hs_task, hs_key, codecVars, connVars, svVars, rg_call, apVars, ctVars>>

\* server main: if socket.try_upgrade().await.is_ok() { tokio::spawn(on_connect(..)) }
SpawnOnConnect ==
    /\ hs_key = None
    /\ hs_result.ok
    /\ ~hs_task
    /\ hs_task' = TRUE
    /\ UNCHANGED <<hs_request, hs_written, hs_result, hs_key, codecVars, connVars, svVars, rg_call, apVars, ctVars>>

\* client main: ws.try_upgrade(..).await
TryUpgradeInitiator ==
    /\ hs_key.some
    /\ hs_result = NoResult
    /\ LET r == try_upgrade_Server(hs_key.v, hs_request)
       IN  /\ hs_result' = r.result
           /\ hs_written' = r.written
    /\ UNCHANGED <<hs_request, hs_task, hs_key, codecVars, connVars, svVars, rg_call, apVars, ctVars>>

\* client main: after try_upgrade(..).await?, into_split and App::run
RunApp ==
    /\ hs_key.some
    /\ hs_result.ok
    /\ ~hs_task
    /\ hs_task' = TRUE
    /\ UNCHANGED <<hs_request, hs_written, hs_result, hs_key, codecVars, connVars, svVars, rg_call, apVars, ctVars>>

NextHandshake ==
    \/ TryUpgrade
    \/ SpawnOnConnect
    \/ TryUpgradeInitiator
    \/ RunApp

SpecHandshake == InitHandshake /\ [][NextHandshake]_vars

-----------------------------------------------------------------------------
(* SpecServer: the tasks main spawned for the connections of Addrs run     *)
(* on_connect against one registry. What a receive call returns is drawn   *)
(* from ClientInputs: the client's part is the environment. A task's       *)
(* record holds its position in on_connect / handle_auth and their locals. *)

MaxReads == 3       \* receive calls that return, over all tasks

Addrs == {50001, 50002}

\* the orders in which a HashMap keyed by the addresses can yield its entries
Orders ==
    {o \in [1..Cardinality(Addrs) -> Addrs] :
        \A i, j \in DOMAIN o : o[i] = o[j] => i = j}

\* what rx.receive() followed by ClientMessage::try_from gives: a client
\* message, a Message that is none ("Unknown"), or a receive error ("Err")
ClientInputs ==
    {[kind |-> "Auth", name |-> n] : n \in {"Anonymous Cat", "Bob"}}
    \cup {[kind |-> "SimpleAuth"], [kind |-> "Unknown"], [kind |-> "Err"]}
    \cup {[kind |-> "SendMessage", token |-> generate_token(a), text |-> "hi"]
              : a \in Addrs}

InitServer ==
    /\ sv_clients = [addr_map |-> <<>>, token_map |-> <<>>]
    /\ sv_lock = None
    /\ sv_task = [a \in Addrs |->
                     [pc |-> "handle_auth", name |-> "", maybe_token |-> None,
                      message |-> [kind |-> "none"], sender |-> None]]
    /\ sv_out = [a \in Addrs |-> <<>>]
    /\ sv_names = 0
    /\ sv_reads = 0
    /\ rg_call = NoCall
    /\ CodecIdle /\ ConnIdle /\ HandshakeIdle /\ ClientIdle

\* handle_auth up to the lock request of try_connect: the receive call, the
\* early returns that make on_connect call handle_auth again, ClientData::new
HandleAuthReceive(a) ==
    /\ sv_task[a].pc = "handle_auth"
    /\ sv_reads < MaxReads
    /\ sv_reads' = sv_reads + 1
    /\ \E m \in ClientInputs :
          IF m.kind = "SimpleAuth"
          THEN /\ sv_names' = sv_names + 1
               /\ sv_task' = [sv_task EXCEPT ![a].pc = "try_connect",
                                 ![a].name = RANDOM_NAMES[(sv_names % 5) + 1]]
          ELSE IF m.kind = "Auth"
          THEN /\ sv_task' = [sv_task EXCEPT ![a].pc = "try_connect",
                                 ![a].name = m.name]
               /\ UNCHANGED sv_names
          ELSE UNCHANGED <<sv_task, sv_names>>
    /\ UNCHANGED <<sv_clients, sv_lock, sv_out, codecVars, connVars, hsVars, rg_call, apVars, ctVars>>

\* AuthTryConnect keeping the guard of its lock() call beyond the statement
AuthTryConnect_KeepsGuard(a) ==
    /\ sv_task[a].pc = "try_connect"
    /\ sv_lock = None
    /\ sv_lock' = Some(a)
    /\ LET r == try_connect(sv_clients, a, [name |-> sv_task[a].name, tx |-> a])
       IN  /\ sv_clients' = r.clients
           /\ sv_task' = [sv_task EXCEPT ![a].pc = "lock",
                             ![a].maybe_token = r.token]
    /\ UNCHANGED <<sv_out, sv_names, sv_reads, codecVars, connVars, hsVars, rg_call, apVars, ctVars>>

\* handle_auth: clients.lock().await.try_connect(addr, data).await
AuthTryConnect(a) ==
    /\ sv_task[a].pc = "try_connect"
    /\ sv_lock = None
    /\ LET r == try_connect(sv_clients, a, [name |-> sv_task[a].name, tx |-> a])
       IN  /\ sv_clients' = r.clients
           /\ sv_task' = [sv_task EXCEPT ![a].pc = "lock",
                             ![a].maybe_token = r.token]
    /\ UNCHANGED <<sv_lock, sv_out, sv_names, sv_reads, codecVars, connVars, hsVars, rg_call, apVars, ctVars>>

\* handle_auth: let mut lock = clients.lock().await
AuthLock(a) ==
    /\ sv_task[a].pc = "lock"
    /\ sv_lock = None
    /\ sv_lock' = Some(a)
    /\ sv_task' = [sv_task EXCEPT ![a].pc = "reply"]
    /\ UNCHANGED <<sv_clients, sv_out, sv_names, sv_reads, codecVars, connVars, hsVars, rg_call, apVars, ctVars>>

\* handle_auth from send_to_addr to its return, which drops the guard; on
\* Err (of send_to_addr or of broadcast_except_one, through the ?)
\* on_connect returns Err(InvalidData), on Ok(None) it enters its second loop
AuthReply(a) ==
    /\ sv_task[a].pc = "reply"
    /\ sv_lock = Some(a)
    /\ \E order \in Orders, fails \in SUBSET Addrs :
          LET r == send_to_addr(sv_clients, sv_out, a,
                                AuthSuccess(sv_task[a].maybe_token), fails)
              b == broadcast_except_one(sv_clients, r.out, a,
                       ServerNotification(sv_task[a].name, " has connected."),
                       order, fails)
          IN  IF ~r.result.ok
              THEN /\ sv_out' = r.out
                   /\ sv_task' = [sv_task EXCEPT ![a].pc = "returned_err"]
              ELSE IF sv_task[a].maybe_token.some
              THEN /\ sv_out' = b.out
                   /\ sv_task' = [sv_task EXCEPT ![a].pc =
                                     IF b.result.ok THEN "receive"
                                     ELSE "returned_err"]
              ELSE /\ sv_out' = r.out
                   /\ sv_task' = [sv_task EXCEPT ![a].pc = "receive"]
    /\ sv_lock' = None
    /\ UNCHANGED <<sv_clients, sv_names, sv_reads, codecVars, connVars, hsVars, rg_call, apVars, ctVars>>

\* on_connect, second loop: rx.receive().await and the match on its result
\* up to the first lock request
ChatReceive(a) ==
    /\ sv_task[a].pc = "receive"
    /\ sv_reads < MaxReads
    /\ sv_reads' = sv_reads + 1
    /\ \E m \in ClientInputs :
          sv_task' =
              IF m.kind = "Err"
              THEN [sv_task EXCEPT ![a].pc = "on_disconnect"]
              ELSE IF m.kind = "SendMessage"
              THEN [sv_task EXCEPT ![a].pc = "by_token", ![a].message = m]
              ELSE sv_task
    /\ UNCHANGED <<sv_clients, sv_lock, sv_out, sv_names, codecVars, connVars, hsVars, rg_call, apVars, ctVars>>

\* handle_client_message: clients.lock().await.by_token(token).map(into)
ChatByToken(a) ==
    /\ sv_task[a].pc = "by_token"
    /\ sv_lock = None
    /\ LET maybe_sender == by_token(sv_clients, sv_task[a].message.token)
       IN  sv_task' =
               IF maybe_sender.some
               THEN [sv_task EXCEPT ![a].pc = "broadcast",
                                    ![a].sender = Some(maybe_sender.v.name)]
               ELSE [sv_task EXCEPT ![a].pc = "receive"]
    /\ UNCHANGED <<sv_clients, sv_lock, sv_out, sv_names, sv_reads, codecVars, connVars, hsVars, rg_call, apVars, ctVars>>

\* handle_client_message: clients.lock().await.broadcast(..).await?; the
\* error is returned by on_connect through its own ?
ChatBroadcast(a) ==
    /\ sv_task[a].pc = "broadcast"
    /\ sv_lock = None
    /\ \E order \in Orders, fails \in SUBSET Addrs :
          LET b == broadcast(sv_clients, sv_out,
                             PropagateMessage(sv_task[a].sender.v,
                                              sv_task[a].message.text),
                             order, fails)
          IN  /\ sv_out' = b.out
              /\ sv_task' = [sv_task EXCEPT ![a].pc =
                                IF b.result.ok THEN "receive"
                                ELSE "returned_err"]
    /\ UNCHANGED <<sv_clients, sv_lock, sv_names, sv_reads, codecVars, connVars, hsVars, rg_call, apVars, ctVars>>

\* on_disconnect, after which on_connect returns Ok(()); the result of
\* broadcast_except_one is discarded
OnDisconnect(a) ==
    /\ sv_task[a].pc = "on_disconnect"
    /\ sv_lock = None
    /\ IF a \in DOMAIN sv_clients.addr_map
       THEN /\ \E order \in Orders, fails \in SUBSET Addrs :
                  sv_out' = broadcast_except_one(sv_clients, sv_out, a,
                                ServerNotification(sv_clients.addr_map[a].name,
                                                   " has disconnected."),
                                order, fails).out
            /\ sv_clients' = disconnect(sv_clients, a)
       ELSE UNCHANGED <<sv_out, sv_clients>>
    /\ sv_task' = [sv_task EXCEPT ![a].pc = "returned_ok"]
    /\ UNCHANGED <<sv_lock, sv_names, sv_reads, codecVars, connVars, hsVars, rg_call, apVars, ctVars>>

NextServer ==
    \/ \E a \in Addrs : HandleAuthReceive(a)
    \/ \E a \in Addrs : AuthTryConnect(a)
    \/ \E a \in Addrs : AuthLock(a)
    \/ \E a \in Addrs : AuthReply(a)
    \/ \E a \in Addrs : ChatReceive(a)
    \/ \E a \in Addrs : ChatByToken(a)
    \/ \E a \in Addrs : ChatBroadcast(a)
    \/ \E a \in Addrs : OnDisconnect(a)

SpecServer == InitServer /\ [][NextServer]_vars

\* the steps the task of a takes by itself: all but the receive calls,
\* which return when the client has sent something
TaskStep(a) ==
    \/ AuthTryConnect(a) \/ AuthLock(a) \/ AuthReply(a)
    \/ ChatByToken(a) \/ ChatBroadcast(a) \/ OnDisconnect(a)

\* SpecServer with the scheduling of the runtime: a task that can run is
\* run, a write completes, and the Mutex of tokio hands the lock to its
\* waiters in the order of their requests, so that a waiter is not passed
\* over forever. Nothing obliges a client to send.
SpecServerFair ==
    /\ InitServer /\ [][NextServer]_vars
    /\ \A a \in Addrs : SF_vars(TaskStep(a))

-----------------------------------------------------------------------------
(* SpecRegistry: try_connect and disconnect called on one Clients in any   *)
(* order, with any address and any ClientData. rg_call keeps the call, the *)
(* registry it was made on and the Option<Token> it returned.              *)

RegNames == {"Anonymous Cat", "Bob", "Eve"}

\* the ClientData values handed to try_connect
RegClients == {[name |-> n, tx |-> t] : n \in RegNames, t \in Addrs}

InitRegistry ==
    /\ sv_clients = [addr_map |-> <<>>, token_map |-> <<>>]
    /\ rg_call = NoCall
    /\ sv_lock = None /\ sv_task = <<>> /\ sv_out = <<>>
    /\ sv_names = 0 /\ sv_reads = 0
    /\ CodecIdle /\ ConnIdle /\ HandshakeIdle /\ ClientIdle

\* Clients::try_connect(address, client)
RegTryConnect(address, client) ==
    /\ LET r == try_connect(sv_clients, address, client)
       IN  /\ sv_clients' = r.clients
           /\ rg_call' = [op |-> "try_connect", address |-> address,
                          client |-> client, before |-> sv_clients,
                          token |-> r.token]
    /\ UNCHANGED <<sv_lock, sv_task, sv_out, sv_names, sv_reads, codecVars, connVars, hsVars, apVars, ctVars>>

\* Clients::disconnect(address)
RegDisconnect(address) ==
    /\ sv_clients' = disconnect(sv_clients, address)
    /\ rg_call' = [op |-> "disconnect", address |-> address,
                   before |-> sv_clients]
    /\ UNCHANGED <<sv_lock, sv_task, sv_out, sv_names, sv_reads, codecVars, connVars, hsVars, apVars, ctVars>>

NextRegistry ==
    \/ \E address \in Addrs, client \in RegClients :
          RegTryConnect(address, client)
    \/ \E address \in Addrs : RegDisconnect(address)

SpecRegistry == InitRegistry /\ [][NextRegistry]_vars

-----------------------------------------------------------------------------
(* SpecApp: client/src/main.rs, App::run after init_components. The        *)
(* background tasks send key events and server messages on event_tx; each  *)
(* turn of the loop of run receives one event and delegates it. A          *)
(* component is its kind and the field that decides what it handles.       *)

MaxEvents == 4      \* events the background tasks send, over one run

\* components::Chat (mode), components::Auth (focus), components::Notification
Chat(mode) == [kind |-> "Chat", mode |-> mode]
Auth(focus) == [kind |-> "Auth", focus |-> focus]
Notification == [kind |-> "Notification"]

\* AppEvent
KeyEvent(code) == [kind |-> "KeyEvent", code |-> code]
WsMessage(msg) == [kind |-> "WsMessage", msg |-> msg]
ComponentUnfocus == [kind |-> "ComponentUnfocus"]
ComponentFocus == [kind |-> "ComponentFocus"]
SpawnAuth == [kind |-> "SpawnAuth"]
Notify == [kind |-> "Notify"]

\* the key codes and server messages the tasks of spawn_event_emitter send
KeyCodes == {"Enter", "q", "Tab", "i", "Esc"}
EmittedEvents ==
    {KeyEvent(c) : c \in KeyCodes} \cup {WsMessage("AuthFailed")}

\* tui_input's handle_event(..).is_some(): a character key changes the input
InputHandles(code) == code \in {"q", "i"}

\* Component::handle_event of each component: handled, the component
\* afterwards, and the events it sent on event_tx
Auth_handle_event(self, event, is_focused) ==
    IF ~is_focused \/ event.kind /= "KeyEvent"
    THEN [handled |-> FALSE, component |-> self, sent |-> <<>>]
    ELSE IF self.focus = "Input" /\ InputHandles(event.code)
    THEN [handled |-> TRUE, component |-> self, sent |-> <<>>]
    ELSE IF event.code = "q"
    THEN [handled |-> TRUE, component |-> self, sent |-> <<ComponentUnfocus>>]
    ELSE IF event.code = "Tab"
    THEN [handled |-> TRUE,
          component |-> Auth(IF self.focus = "Input" THEN "Colors" ELSE "Input"),
          sent |-> <<>>]
    ELSE IF event.code = "Enter"
    THEN [handled |-> TRUE, component |-> self, sent |-> <<ComponentUnfocus>>]
    ELSE [handled |-> FALSE, component |-> self, sent |-> <<>>]

Chat_handle_event(self, event, is_focused) ==
    IF event.kind = "KeyEvent" /\ is_focused
    THEN IF self.mode = "Normal"
         THEN IF event.code = "i"
              THEN [handled |-> TRUE, component |-> Chat("Insert"), sent |-> <<>>]
              ELSE [handled |-> FALSE, component |-> self, sent |-> <<>>]
         ELSE IF event.code = "Esc"
         THEN [handled |-> TRUE, component |-> Chat("Normal"), sent |-> <<>>]
         ELSE [handled |-> event.code = "Enter" \/ InputHandles(event.code),
               component |-> self, sent |-> <<>>]
    ELSE IF event.kind = "WsMessage"
    THEN [handled |-> TRUE, component |-> self,
          sent |-> IF event.msg = "AuthFailed" THEN <<Notify, SpawnAuth>>
                   ELSE <<>>]
    ELSE [handled |-> FALSE, component |-> self, sent |-> <<>>]

Notification_handle_event(self, event, is_focused) ==
    [handled |-> event.kind = "Notify", component |-> self, sent |-> <<>>]

handle_event(self, event, is_focused) ==
    IF self.kind = "Auth" THEN Auth_handle_event(self, event, is_focused)
    ELSE IF self.kind = "Chat" THEN Chat_handle_event(self, event, is_focused)
    ELSE Notification_handle_event(self, event, is_focused)

\* the for loop of delegate_event from component i down to the bottom:
\* the stack, the events sent and whether a component handled the event
RECURSIVE delegate_loop(_, _, _, _, _)
delegate_loop(stack, focus, event, i, emitted) ==
    IF i < 1 \/ Len(stack) = 0
    THEN [stack |-> stack, sent |-> emitted, is_handled |-> FALSE]
    ELSE LET r == handle_event(stack[i], event, focus = i - 1)
         IN  IF r.handled
             THEN [stack |-> [stack EXCEPT ![i] = r.component],
                   sent |-> emitted \o r.sent, is_handled |-> TRUE]
             ELSE delegate_loop(stack, focus, event, i - 1, emitted \o r.sent)

\* VecDeque::remove(index): nothing happens when index is out of bounds
VecDeque_remove(inner, index) ==
    IF index >= Len(inner) THEN inner
    ELSE SubSeq(inner, 1, index) \o SubSeq(inner, index + 2, Len(inner))

\* VecDeque::insert(index, value), for index <= len
VecDeque_insert(inner, index, value) ==
    SubSeq(inner, 1, index) \o <<value>> \o SubSeq(inner, index + 1, Len(inner))

saturating_sub(a, b) == IF a < b THEN 0 ELSE a - b

Min(a, b) == IF a < b THEN a ELSE b

InitApp ==
    /\ ap_stack = <<Chat("Normal"), Notification>>
    /\ ap_focus = 0
    /\ ap_queue = <<SpawnAuth>>
    /\ ap_quit = FALSE
    /\ ap_panic = FALSE
    /\ ap_events = 0
    /\ CodecIdle /\ ConnIdle /\ HandshakeIdle /\ ServerIdle /\ TasksIdle

\* the tasks of spawn_event_emitter: event_tx.send(..)
EmitEvent(event) ==
    /\ ap_events < MaxEvents
    /\ ~ap_quit /\ ~ap_panic
    /\ ap_events' = ap_events + 1
    /\ ap_queue' = Append(ap_queue, event)
    /\ UNCHANGED <<ap_stack, ap_focus, ap_quit, ap_panic, codecVars, connVars, hsVars, svVars, rg_call, ctVars>>

\* App::handle_event, for an event no component handled. On an empty stack
\* len() - 1 overflows: a panic in a debug build, usize::MAX in a release
\* build, where the minimum is then focus + 1.
AppHandleEvent(event, stack, queue) ==
    IF event.kind = "KeyEvent"
    THEN /\ ap_quit' = (event.code = "q")
         /\ ap_stack' = stack /\ ap_queue' = queue
         /\ UNCHANGED <<ap_focus, ap_panic>>
    ELSE IF event.kind = "ComponentFocus"
    THEN /\ IF Len(stack) = 0
            THEN \/ ap_panic' = TRUE /\ UNCHANGED ap_focus
                 \/ ap_focus' = ap_focus + 1 /\ UNCHANGED ap_panic
            ELSE ap_focus' = Min(ap_focus + 1, Len(stack) - 1) /\ UNCHANGED ap_panic
         /\ ap_stack' = stack /\ ap_queue' = queue
         /\ UNCHANGED ap_quit
    ELSE IF event.kind = "ComponentUnfocus"
    THEN /\ ap_stack' = VecDeque_remove(stack, ap_focus)
         /\ ap_focus' = saturating_sub(ap_focus, 1)
         /\ ap_queue' = queue
         /\ UNCHANGED <<ap_quit, ap_panic>>
    ELSE IF event.kind = "SpawnAuth"
    THEN IF ap_focus + 1 > Len(stack)
         THEN /\ ap_panic' = TRUE
              /\ ap_stack' = stack /\ ap_queue' = queue
              /\ UNCHANGED <<ap_focus, ap_quit>>
         ELSE /\ ap_stack' = VecDeque_insert(stack, ap_focus + 1, Auth("Input"))
              /\ ap_queue' = Append(queue, ComponentFocus)
              /\ UNCHANGED <<ap_focus, ap_quit, ap_panic>>
    ELSE /\ ap_stack' = stack /\ ap_queue' = queue
         /\ UNCHANGED <<ap_focus, ap_quit, ap_panic>>

\* one turn of the loop of App::run with an event to receive: delegate_event
DelegateEvent ==
    /\ ~ap_quit /\ ~ap_panic
    /\ ap_queue /= <<>>
    /\ LET event == Head(ap_queue)
           r == delegate_loop(ap_stack, ap_focus, event, Len(ap_stack), <<>>)
       IN  IF r.is_handled
           THEN /\ ap_stack' = r.stack
                /\ ap_queue' = Tail(ap_queue) \o r.sent
                /\ UNCHANGED <<ap_focus, ap_quit, ap_panic>>
           ELSE AppHandleEvent(event, r.stack, Tail(ap_queue) \o r.sent)
    /\ UNCHANGED <<ap_events, codecVars, connVars, hsVars, svVars, rg_call, ctVars>>

NextApp ==
    \/ \E event \in EmittedEvents : EmitEvent(event)
    \/ DelegateEvent

SpecApp == InitApp /\ [][NextApp]_vars

-----------------------------------------------------------------------------
(* SpecTasks: client/src/main.rs, main and the three loops App::new        *)
(* spawns. main runs App::run until the user quits, cancels the token and  *)
(* returns; its return drops the App, and with it every sender of the      *)
(* Message channel, and then the runtime, which drops each task that is    *)
(* at a suspension point. The key-event loop has none.                     *)

MaxQueued == 2      \* Messages waiting in the channel of spawn_ws_sender

InitTasks ==
    /\ ct_main = "run"
    /\ ct_token = FALSE
    /\ ct_emitter = "check"
    /\ ct_receiver = "receive"
    /\ ct_sender = "recv"
    /\ ct_chan = [len |-> 0, closed |-> FALSE]
    /\ ct_conn = "open"
    /\ CodecIdle /\ ConnIdle /\ HandshakeIdle /\ ServerIdle /\ AppIdle

\* a component sends a Message on ws_tx while App::run runs
AppSends ==
    /\ ct_main = "run"
    /\ ct_chan.len < MaxQueued
    /\ ct_chan' = [ct_chan EXCEPT !.len = @ + 1]
    /\ UNCHANGED <<ct_main, ct_token, ct_emitter, ct_receiver, ct_sender, ct_conn>>
    /\ UNCHANGED <<codecVars, connVars, hsVars, svVars, rg_call, apVars>>

\* should_quit ends the loop of App::run; ratatui::restore()
AppQuits ==
    /\ ct_main = "run"
    /\ ct_main' = "cancel"
    /\ UNCHANGED <<ct_token, ct_emitter, ct_receiver, ct_sender, ct_chan, ct_conn>>
    /\ UNCHANGED <<codecVars, connVars, hsVars, svVars, rg_call, apVars>>

\* main: app.cancel_token.cancel()
Cancel ==
    /\ ct_main = "cancel"
    /\ ct_token' = TRUE
    /\ ct_main' = "return"
    /\ UNCHANGED <<ct_emitter, ct_receiver, ct_sender, ct_chan, ct_conn>>
    /\ UNCHANGED <<codecVars, connVars, hsVars, svVars, rg_call, apVars>>

\* main returns Ok(()): app is dropped, and ws_tx and its clones with it
MainReturns ==
    /\ ct_main = "return"
    /\ ct_main' = "returned"
    /\ ct_chan' = [ct_chan EXCEPT !.closed = TRUE]
    /\ UNCHANGED <<ct_token, ct_emitter, ct_receiver, ct_sender, ct_conn>>
    /\ UNCHANGED <<codecVars, connVars, hsVars, svVars, rg_call, apVars>>

\* spawn_event_emitter, first task: is_cancelled() at the top of the loop,
\* then poll, read and send without a suspension point
EmitterStep ==
    /\ \/ /\ ct_emitter = "check"
          /\ ct_emitter' = IF ct_token THEN "stopped" ELSE "poll"
       \/ /\ ct_emitter = "poll"
          /\ ct_emitter' = "check"
    /\ UNCHANGED <<ct_main, ct_token, ct_receiver, ct_sender, ct_chan, ct_conn>>
    /\ UNCHANGED <<codecVars, connVars, hsVars, svVars, rg_call, apVars>>

\* the server sends a message: ws_rx.receive().await returns Ok(msg)
ReceiverGets ==
    /\ ct_receiver = "receive"
    /\ ct_conn = "open"
    /\ ct_receiver' = "emit"
    /\ UNCHANGED <<ct_main, ct_token, ct_emitter, ct_sender, ct_chan, ct_conn>>
    /\ UNCHANGED <<codecVars, connVars, hsVars, svVars, rg_call, apVars>>

\* the server's stream ends
ConnectionEnds ==
    /\ ct_conn = "open"
    /\ ct_conn' = "ended"
    /\ UNCHANGED <<ct_main, ct_token, ct_emitter, ct_receiver, ct_sender, ct_chan>>
    /\ UNCHANGED <<codecVars, connVars, hsVars, svVars, rg_call, apVars>>

\* spawn_event_emitter, second task: inner_tx.send(..) and the next
\* receive call, or the Err that ends the while let
ReceiverStep ==
    /\ \/ /\ ct_receiver = "emit"
          /\ ct_receiver' = "receive"
       \/ /\ ct_receiver = "receive"
          /\ ct_conn = "ended"
          /\ ct_receiver' = "stopped"
    /\ UNCHANGED <<ct_main, ct_token, ct_emitter, ct_sender, ct_chan, ct_conn>>
    /\ UNCHANGED <<codecVars, connVars, hsVars, svVars, rg_call, apVars>>

\* spawn_ws_sender: ws_rx.recv().await gives Some(msg) while a Message
\* waits and None once the channel is closed and empty; ws_tx.send(msg);
\* the end of the body of the loop
SenderStep ==
    /\ \/ /\ ct_sender = "recv"
          /\ ct_chan.len > 0
          /\ ct_sender' = "send"
          /\ ct_chan' = [ct_chan EXCEPT !.len = @ - 1]
       \/ /\ ct_sender = "recv"
          /\ ct_chan.len = 0 /\ ct_chan.closed
          /\ ct_sender' = "none"
          /\ UNCHANGED ct_chan
       \/ /\ ct_sender \in {"send", "none"}
          /\ ct_sender' = "recv"
          /\ UNCHANGED ct_chan
    /\ UNCHANGED <<ct_main, ct_token, ct_emitter, ct_receiver, ct_conn>>
    /\ UNCHANGED <<codecVars, connVars, hsVars, svVars, rg_call, apVars>>

\* the runtime is dropped after main returned: the receive loop is dropped
\* at its receive().await
DropReceiver ==
    /\ ct_main = "returned"
    /\ ct_receiver = "receive"
    /\ ct_receiver' = "stopped"
    /\ UNCHANGED <<ct_main, ct_token, ct_emitter, ct_sender, ct_chan, ct_conn>>
    /\ UNCHANGED <<codecVars, connVars, hsVars, svVars, rg_call, apVars>>

\* the runtime is dropped after main returned: the send loop is dropped at
\* its recv().await
DropSender ==
    /\ ct_main = "returned"
    /\ ct_sender = "recv"
    /\ ct_sender' = "stopped"
    /\ UNCHANGED <<ct_main, ct_token, ct_emitter, ct_receiver, ct_chan, ct_conn>>
    /\ UNCHANGED <<codecVars, connVars, hsVars, svVars, rg_call, apVars>>

NextTasks ==
    \/ AppSends \/ AppQuits \/ Cancel \/ MainReturns
    \/ EmitterStep
    \/ ReceiverGets \/ ConnectionEnds \/ ReceiverStep
    \/ SenderStep
    \/ DropReceiver \/ DropSender

SpecTasks == InitTasks /\ [][NextTasks]_vars

\* SpecTasks with the scheduling of the runtime: main and every task that
\* can run are run, and a task that comes back to a suspension point again
\* and again is dropped there once the runtime shuts down. Nothing obliges
\* the user to quit or the server to send.
SpecTasksFair ==
    /\ SpecTasks
    /\ WF_vars(Cancel) /\ WF_vars(MainReturns)
    /\ WF_vars(EmitterStep) /\ WF_vars(ReceiverStep) /\ WF_vars(SenderStep)
    /\ SF_vars(DropReceiver) /\ SF_vars(DropSender)

-----------------------------------------------------------------------------
(* Properties of the codec, checked under SpecCodec *)

LiteralFrame ==
    MakeFrame(FALSE, 0, "Binary", "ExactU8", None, <<222, 173, 190, 239>>)
MaskedTestFrame ==
    MakeFrame(TRUE, 3, "Continue", "ExactU8", Some(12345), <<255, 0, 255>>)

\* C1: encoding a valid Frame and decoding the bytes yields an equal Frame
\* (header, masking key, payload); the literal frame fin=false, rsv=0, Binary,
\* unmasked, 4 payload bytes encodes to 0x02, 0x04 and the payload, and those
\* 6 bytes decode to the identical Frame.
C1_EncodeDecodeRoundTrip ==
    /\ c_step = "decoded" => c_out = Ok(c_frame)
    /\ c_step \in {"encoded", "decoded"} /\ c_frame = LiteralFrame
          => c_bytes = <<2, 4, 222, 173, 190, 239>>

\* C2: a decoded Frame has a payload of the length its header declares, and
\* has a masking key exactly when its header's mask flag is set.
C2_DecodedPayloadHasDeclaredLen ==
    c_step = "decoded" /\ c_out.ok =>
        /\ Len(c_out.val.payload) = c_out.val.header.payload_len.n
        /\ c_out.val.masking_key.some <=> c_out.val.header.masked

\* all frames non-final except the last, a data opcode first, Continue after
WellFormedFragments(frames) ==
    /\ frames /= <<>>
    /\ \A i \in 1..Len(frames) : frames[i].header.fin <=> i = Len(frames)
    /\ frames[1].header.opcode \in {"Text", "Binary"}
    /\ \A i \in 2..Len(frames) : frames[i].header.opcode = "Continue"

\* the payloads in arrival order, taken from the last fragment backwards
RECURSIVE InArrivalOrder(_)
InArrivalOrder(frames) ==
    IF frames = <<>> THEN <<>>
    ELSE InArrivalOrder(SubSeq(frames, 1, Len(frames) - 1))
         \o frames[Len(frames)].payload

DataMessage(opcode, payload) == [kind |-> opcode, payload |-> payload]

\* C6 as stated: every well-formed fragment sequence reassembles to the
\* Message of the first frame's opcode with the concatenated payload.
C6_ReassemblyAlwaysYieldsMessage ==
    c_step = "assembled" /\ WellFormedFragments(c_frames) =>
        c_out = Ok(DataMessage(c_frames[1].header.opcode,
                               InArrivalOrder(c_frames)))

\* C6 (amended): a well-formed fragment sequence reassembles to the Message of
\* the first frame's opcode whose payload is the concatenation of the payloads
\* in arrival order, except that a Text sequence whose concatenation is not
\* valid UTF-8 yields the InvalidPayloadData error; Text "ab", Continue "cd",
\* final Continue "ef" gives Text("abcdef").
C6_ReassemblyConcatenates ==
    /\ c_step = "assembled" /\ WellFormedFragments(c_frames) =>
          LET opcode == c_frames[1].header.opcode
              buffer == InArrivalOrder(c_frames)
          IN  c_out = IF opcode = "Text" /\ ~Utf8Valid(buffer)
                      THEN Err(ProtocolViolated("InvalidPayloadData"))
                      ELSE Ok(DataMessage(opcode, buffer))
    /\ c_step = "assembled" /\ c_frames = ExampleFragments =>
          c_out = Ok(Text(<<97, 98, 99, 100, 101, 102>>))

C6_Witness ==
    /\ c_step = "assembled"
    /\ WellFormedFragments(c_frames)
    /\ Len(c_frames) = 3
    /\ c_out = Ok(Text(<<97, 98, 195, 169>>))

\* C7: converting a single non-final Frame into a Message fails with
\* IsNotFinal, whatever its opcode and payload.
C7_NonFinalFrameIsNotFinal ==
    c_step = "message" /\ ~c_frame.header.fin => c_out = Err(IsNotFinal)

C7_Witness ==
    /\ c_step = "message"
    /\ ~c_frame.header.fin
    /\ c_frame.header.opcode = "Text"
    /\ c_frame.payload = <<97, 97>>
    /\ c_out = Err(IsNotFinal)

Bit(x, j) == (x \div (2 ^ j)) % 2
\* the byte whose bit j is set exactly when a and b differ in bit j,
\* tabulated once for all pairs of bytes
DifferingBits(a, b) ==
    LET d(j) == IF Bit(a, j) /= Bit(b, j) THEN 2 ^ j ELSE 0
    IN  d(0) + d(1) + d(2) + d(3) + d(4) + d(5) + d(6) + d(7)
XorTable == [a \in 0..255 |-> [b \in 0..255 |-> DifferingBits(a, b)]]
XorOfBits(a, b) == XorTable[a][b]
\* byte k (0 = most significant) of the 32-bit key
BigEndianByte(key, k) == (key \div (256 ^ (3 - k))) % 256

\* C9: Frame::mask replaces payload byte i by its XOR with byte (i mod 4) of
\* the big-endian key; key 12345 turns [0xff, 0x00, 0xff] into a payload
\* whose third byte is 0xcf.
C9_MaskXorsBigEndianKey ==
    /\ c_step = "mask1" =>
          \A i \in 1..Len(c_frame.payload) :
              c_cur.payload[i] =
                  XorOfBits(c_frame.payload[i],
                            BigEndianByte(c_frame.masking_key.v, (i - 1) % 4))
    /\ c_step = "mask1" /\ c_frame = MaskedTestFrame => c_cur.payload[3] = 207

C9_Witness ==
    /\ c_step = "mask1"
    /\ c_frame = MaskedTestFrame
    /\ c_cur.payload = <<255, 0, 207>>

\* C10: a header built for payload length n uses the smallest length class:
\* n <= 125 the literal 7-bit value and no extra bytes, 126..65535 marker 126
\* and n as 2 big-endian bytes, n >= 65536 marker 127 and n as 8 big-endian
\* bytes.
C10_SmallestLengthClass ==
    c_step = "header" =>
        LET b == c_bytes
            n == c_len
        IN  /\ n <= 125 => Len(b) = 2 /\ b[2] % 128 = n
            /\ n >= 126 /\ n <= 65535 =>
                  /\ Len(b) = 4
                  /\ b[2] % 128 = 126
                  /\ b[3] * 256 + b[4] = n
            /\ n >= 65536 =>
                  /\ Len(b) = 10
                  /\ b[2] % 128 = 127
                  /\ \A i \in 3..6 : b[i] = 0
                  /\ ((b[7] * 256 + b[8]) * 256 + b[9]) * 256 + b[10] = n

C10_Witness ==
    /\ c_step = "header"
    /\ c_len = 65536
    /\ c_bytes = <<130, 255, 0, 0, 0, 0, 0, 1, 0, 0>>

\* the number of an opcode on the wire
OpcodeNumber(opcode) ==
    CASE opcode = "Continue" -> 0 [] opcode = "Text" -> 1
      [] opcode = "Binary" -> 2   [] opcode = "Close" -> 8
      [] opcode = "Ping" -> 9     [] opcode = "Pong" -> 10

Flag(b) == IF b THEN 1 ELSE 0

\* byte0 and byte1 as the layout gives them for header
LayoutByte0(header) ==
    Flag(header.fin) * 128 + (header.rsv % 8) * 16 + OpcodeNumber(header.opcode)
LayoutByte1(header) ==
    Flag(header.masked) * 128
    + (CASE header.payload_len.kind = "ExactU8" -> header.payload_len.n
         [] header.payload_len.kind \in {"ExactU16", "HintU16"} -> 126
         [] header.payload_len.kind \in {"ExactU64", "HintU64"} -> 127)

\* header holds what bytes b0, b1 carry in their bit positions
FieldsFromBits(header, b0, b1) ==
    /\ header.fin = (Bit(b0, 7) = 1)
    /\ header.rsv = Bit(b0, 6) * 4 + Bit(b0, 5) * 2 + Bit(b0, 4)
    /\ OpcodeNumber(header.opcode) = b0 % 16
    /\ header.masked = (Bit(b1, 7) = 1)

ExtendedLenOfKind(kind) ==
    CASE kind = "ExactU8" -> 0 [] kind = "ExactU16" -> 2 [] kind = "ExactU64" -> 8
FrameSize(frame) ==
    2 + ExtendedLenOfKind(frame.header.payload_len.kind)
      + (IF frame.header.masked THEN 4 ELSE 0)
      + frame.header.payload_len.n

RECURSIVE SizeOfFrames(_, _, _)
SizeOfFrames(frames, from, to) ==
    IF from > to THEN 0
    ELSE FrameSize(frames[from]) + SizeOfFrames(frames, from + 1, to)

\* C12: a call of read_frame_bytes that returns a frame has consumed exactly
\* 2 + e + k + n bytes (e = 0, 2 or 8 by length class, k = 4 when the mask
\* bit is set, n = the declared payload length) and no byte of the frame that
\* follows: frames written back to back come out one per call, in order.
C12_ReaderConsumesOneFrame ==
    c_case = "stream" =>
        LET k == Len(c_read)
            written == Len(c_frames)
        IN  /\ k <= written
            /\ Len(c_bytes) = SizeOfFrames(c_frames, k + 1, written)
            /\ c_bytes = StreamOf(SubSeq(c_frames, k + 1, written))
            /\ \A i \in 1..k :
                  LET f == c_frames[i]
                      e == ExtendedLenOfKind(f.header.payload_len.kind)
                  IN  /\ c_read[i].ok
                      /\ Len(c_read[i].val) = FrameSize(f)
                      /\ c_read[i].val[1] = LayoutByte0(f.header)
                      /\ c_read[i].val[2] = LayoutByte1(f.header)
                      /\ SubSeq(c_read[i].val, 3 + e, FrameSize(f)) =
                            (IF f.masking_key.some
                             THEN <<BigEndianByte(f.masking_key.v, 0),
                                    BigEndianByte(f.masking_key.v, 1),
                                    BigEndianByte(f.masking_key.v, 2),
                                    BigEndianByte(f.masking_key.v, 3)>>
                             ELSE <<>>) \o f.payload

C12_Witness ==
    /\ c_case = "stream"
    /\ Len(c_read) = 2 /\ c_bytes = <<>>
    /\ c_frames[1] = MakeFrame(TRUE, 0, "Binary", "ExactU64", None, <<97, 255>>)
    /\ c_frames[2] = MakeFrame(TRUE, 0, "Ping", "ExactU16", Some(12345), <<>>)
    /\ Len(c_read[1].val) = 12 /\ Len(c_read[2].val) = 8

\* C13 as stated: a final Close frame whose payload after the 2-byte status
\* code is empty or is not valid UTF-8 converts to Close(status, None), never
\* to an error.
C13_CloseRemainderBecomesNone ==
    /\ c_step = "message"
    /\ c_frame.header.fin /\ c_frame.header.opcode = "Close"
    /\ Len(c_frame.payload) >= 2
    /\ LET remainder == SubSeq(c_frame.payload, 3, Len(c_frame.payload))
       IN  remainder = <<>> \/ ~Utf8Valid(remainder)
    => c_out = Ok(Close(StatusCode_from(c_frame.payload[1] * 256
                                        + c_frame.payload[2]), None))

\* C14: for every status code and every non-empty reason of at most 123
\* bytes, Close(code, Some(reason)) converted to a Frame and back is Close
\* with the same code and reason; so for Close(ProtocolError, Some("bye")).
C14_CloseRoundTrip ==
    /\ c_step = "message_back" /\ c_message.kind = "Close"
       /\ c_message.reason.some
       /\ Len(c_message.reason.v) >= 1 /\ Len(c_message.reason.v) <= 123
       => c_out = Ok(c_message)
    /\ c_step = "message_back"
       /\ c_message = Close("ProtocolError", Some(<<98, 121, 101>>))
       => /\ c_cur.payload = <<3, 234, 98, 121, 101>>
          /\ c_out = Ok(Close("ProtocolError", Some(<<98, 121, 101>>)))

C14_Witness ==
    /\ c_step = "message_back"
    /\ c_message = Close("InternalServerError", Some(Letters(123)))
    /\ Len(c_cur.payload) = 125
    /\ c_out = Ok(c_message)

\* the first n elements of s, all of s when it has fewer
FirstBytes(s, n) == [i \in 1..(IF Len(s) < n THEN Len(s) ELSE n) |-> s[i]]

\* C15: the Frame built from a Close, Ping or Pong has at most 125 payload
\* bytes, so its length is a literal byte: a Close carries its 2-byte code and
\* the first 123 bytes of the reason, a Ping/Pong the first 125 bytes of its
\* payload; the payload of a Text or Binary is never cut.
C15_ControlPayloadIsCut ==
    c_step \in {"framed", "message_back"} =>
        LET m == c_message
            p == c_cur.payload
        IN  /\ m.kind \in {"Close", "Ping", "Pong"} =>
                  /\ Len(p) <= 125
                  /\ c_cur.header.payload_len = [kind |-> "ExactU8", n |-> Len(p)]
                  /\ Len(FrameHeader_into_bytes(c_cur.header)) = 2
            /\ m.kind = "Close" =>
                  /\ p[1] * 256 + p[2] = StatusCode_as_u16(m.code)
                  /\ SubSeq(p, 3, Len(p)) =
                        (IF m.reason.some THEN FirstBytes(m.reason.v, 123)
                         ELSE <<>>)
            /\ m.kind \in {"Ping", "Pong"} => p = FirstBytes(m.payload, 125)
            /\ m.kind \in {"Text", "Binary"} => p = m.payload

C15_Witness ==
    /\ c_step = "framed"
    /\ c_message = Close("Normal", Some(Letters(124)))
    /\ c_cur.payload = <<3, 232>> \o Letters(123)

\* the status codes in the order of their numbers 1000..1011; 1004 is not
\* a code of the enumeration
CodesFrom1000 ==
    <<"Normal", "GoingAway", "ProtocolError", "UnsupportedData", "none",
      "NoStatus", "CloseAbnormal", "InvalidPayloadData", "PolicyViolated",
      "MessageTooBig", "UnsupportedExtension", "InternalServerError">>
ListedNumbers == (1000..1003) \cup (1005..1011)

\* C17: a 16-bit number converts to the code listed for it when it is one of
\* 1000-1003, 1005-1011 and to UnsupportedData otherwise; a status code
\* converted to its number and back is the same code.
C17_StatusCodeConversion ==
    /\ [](c_step = "status" =>
            c_out = Ok(IF c_code \in ListedNumbers
                       THEN CodesFrom1000[c_code - 999]
                       ELSE "UnsupportedData"))
    /\ [][c_step' = "status_back" =>
            /\ c_out' = c_out
            /\ c_code' \in ListedNumbers
            /\ CodesFrom1000[c_code' - 999] = c_out.val]_vars

C17_Witness ==
    /\ c_step = "status_back"
    /\ c_code = 1005
    /\ c_out = Ok("NoStatus")

\* the payload length the header bytes of b declare
DeclaredLen(b) ==
    IF b[2] % 128 <= 125 THEN b[2] % 128
    ELSE IF b[2] % 128 = 126 THEN b[3] * 256 + b[4]
    ELSE ((((((b[3] * 256 + b[4]) * 256 + b[5]) * 256 + b[6]) * 256 + b[7])
           * 256 + b[8]) * 256 + b[9]) * 256 + b[10]

\* the extended-length bytes and key bytes the 2 header bytes of b announce
AnnouncedLenBytes(b) ==
    IF b[2] % 128 = 126 THEN 2 ELSE IF b[2] % 128 = 127 THEN 8 ELSE 0
AnnouncedKeyBytes(b) == IF b[2] >= 128 THEN 4 ELSE 0
ValidOpcodeNibble(b) == b[1] % 16 \in {0, 1, 2, 8, 9, 10}

\* C19 as stated: a buffer whose header (valid opcode, length bytes and key
\* bytes all there) declares more payload bytes than follow it fails to
\* decode, with PayloadTooShort.
C19_ShortPayloadIsRejected ==
    c_step = "raw_decoded" /\ Len(c_bytes) >= 2 =>
        LET b == c_bytes
            head == 2 + AnnouncedLenBytes(b) + AnnouncedKeyBytes(b)
        IN  /\ ValidOpcodeNibble(b)
            /\ Len(b) >= head
            /\ DeclaredLen(b) > Len(b) - head
            => c_out = Err("PayloadTooShort")

\* C20: a malformed buffer decodes to the error of its first wrong field:
\* fewer than 2 bytes FrameTooShort; else a reserved opcode nibble
\* InvalidOpcode; else marker 126 / 127 with fewer than 2 / 8 length bytes
\* LengthParsing; else a set mask bit with fewer than 4 key bytes
\* MaskingKeyParsing. None of them gives a Frame or panics.
C20_FirstWrongFieldIsReported ==
    c_step = "raw_decoded" =>
        LET b == c_bytes
        IN  IF Len(b) < 2 THEN c_out = Err("FrameTooShort")
            ELSE IF ~ValidOpcodeNibble(b) THEN c_out = Err("InvalidOpcode")
            ELSE IF Len(b) < 2 + AnnouncedLenBytes(b)
                 THEN c_out = Err("LengthParsing")
            ELSE IF Len(b) < 2 + AnnouncedLenBytes(b) + AnnouncedKeyBytes(b)
                 THEN c_out = Err("MaskingKeyParsing")
            ELSE c_out /= Panic

C20_Witness ==
    /\ c_step = "raw_decoded"
    /\ c_bytes = <<130, 254, 0, 2, 0, 0, 48>>
    /\ c_out = Err("MaskingKeyParsing")

-----------------------------------------------------------------------------
(* Properties of send, checked under Spec *)

\* the bytes of the extended length that follow the 2 header bytes
ExtendedLenBytes(n) == IF n <= 125 THEN 0 ELSE IF n <= 65535 THEN 2 ELSE 8

\* the payload a message puts in its frame (none is long enough to be cut)
PayloadOf(message) ==
    IF message.kind = "Close"
    THEN <<StatusCode_as_u16(message.code) \div 256,
           StatusCode_as_u16(message.code) % 256>>
         \o (IF message.reason.some THEN message.reason.v ELSE <<>>)
    ELSE message.payload

\* C3: every frame written by send on an Acceptor-role stream (type tag
\* Client) has mask bit 0 in byte1 and carries no 4-byte masking key.
C3_AcceptorSendsUnmasked ==
    \A i \in 1..Len(sent) :
        sent[i].side = "Client" =>
            LET p == PayloadOf(sent[i].message)
            IN  /\ sent[i].bytes[2] < 128
                /\ Len(sent[i].bytes) = 2 + ExtendedLenBytes(Len(p)) + Len(p)

\* C4: every frame written by send on an Initiator-role stream (type tag
\* Server) has the mask bit set, carries the 4-byte key drawn in that send
\* call, and its payload bytes on the wire are the message payload XORed with
\* that key.
C4_InitiatorSendsMasked ==
    \A i \in 1..Len(sent) :
        sent[i].side = "Server" =>
            LET b == sent[i].bytes
                p == PayloadOf(sent[i].message)
                h == 2 + ExtendedLenBytes(Len(p))
            IN  /\ b[2] >= 128
                /\ Len(b) = h + 4 + Len(p)
                /\ \A k \in 0..3 : b[h + 1 + k] = BigEndianByte(sent[i].key, k)
                /\ \A j \in 1..Len(p) :
                      b[h + 4 + j] =
                          XorOfBits(p[j], BigEndianByte(sent[i].key, (j - 1) % 4))

C4_Witness ==
    /\ Len(sent) = 2
    /\ sent[1].side = "Server" /\ sent[2].side = "Server"
    /\ sent[1].key /= sent[2].key
    /\ sent[1].message = Binary(<<255, 0, 255>>)
    /\ sent[1].key = 12345
    /\ sent[1].bytes = <<130, 131, 0, 0, 48, 57, 255, 0, 207>>
    /\ sent[2].message = Text(LongPayload)

\* C16: the bytes one send call writes are exactly one frame: fin is set, the
\* opcode is the one of the message's variant (never Continue), and the frame
\* declares and carries the whole payload, whatever its size.
C16_SendWritesOneFinalFrame ==
    \A i \in 1..Len(sent) :
        LET b == sent[i].bytes
            p == PayloadOf(sent[i].message)
            key_len == IF b[2] >= 128 THEN 4 ELSE 0
        IN  /\ b[1] \div 128 = 1
            /\ b[1] % 16 = OpcodeNumber(sent[i].message.kind)
            /\ b[1] % 16 /= 0
            /\ DeclaredLen(b) = Len(p)
            /\ Len(b) = 2 + ExtendedLenBytes(Len(p)) + key_len + Len(p)

C16_Witness ==
    /\ Len(sent) = 2
    /\ sent[1].side = "Client" /\ sent[1].message = Text(LongPayload)
    /\ sent[1].bytes[1] = 129 /\ Len(sent[1].bytes) = 134
    /\ sent[2].side = "Server" /\ sent[2].message = Ping(<<>>)
    /\ sent[2].bytes[1] = 137
    /\ wire["Client"] = sent[1].bytes /\ wire["Server"] = sent[2].bytes

\* the records of the send calls of side s, in order
RECURSIVE SentBy(_, _)
SentBy(log, s) ==
    IF log = <<>> THEN <<>>
    ELSE (IF log[1].side = s THEN <<log[1]>> ELSE <<>>) \o SentBy(Tail(log), s)

\* the 4 key bytes and the payload bytes of the one frame b, as on the wire
WireKey(b) == SubSeq(b, 3 + ExtendedLenBytes(DeclaredLen(b)),
                        6 + ExtendedLenBytes(DeclaredLen(b)))
WirePayload(b) == SubSeq(b, 7 + ExtendedLenBytes(DeclaredLen(b)), Len(b))

\* C18: the Message a receive call of the Acceptor (type tag Client) returns
\* is built from the frame's payload XORed with the frame's masking key; the
\* one a receive call of the Initiator (type tag Server) returns is built
\* from the payload bytes as received, although those frames carry a key too.
C18_UnmaskingFollowsRole ==
    \A s \in Sides :
        \A i \in 1..Len(received[s]) :
            LET b == SentBy(sent, Peer(s))[i].bytes
                w == WirePayload(b)
                k == WireKey(b)
                m == received[s][i]
            IN  /\ i <= Len(SentBy(sent, Peer(s)))
                /\ b[2] >= 128
                /\ m.ok
                /\ OpcodeNumber(m.val.kind) = b[1] % 16
                /\ s = "Client" =>
                      PayloadOf(m.val) =
                          [j \in 1..Len(w) |->
                              XorOfBits(w[j], k[((j - 1) % 4) + 1])]
                /\ s = "Server" => PayloadOf(m.val) = w

C18_Witness ==
    /\ Len(sent) = 2
    /\ sent[1].side = "Server"
    /\ sent[1].bytes = <<130, 131, 0, 0, 48, 57, 255, 0, 207>>
    /\ sent[2].side = "Client"
    /\ sent[2].bytes = <<130, 131, 17, 34, 51, 68, 255, 0, 255>>
    /\ received["Client"] = <<Ok(Binary(<<255, 0, 255>>))>>
    /\ received["Server"] = <<Ok(Binary(<<255, 0, 255>>))>>

-----------------------------------------------------------------------------
(* Properties of the handshake, checked under SpecHandshake *)

\* the request has Upgrade: websocket, Connection: upgrade,
\* Sec-WebSocket-Version: 13, a Host header and Sec-WebSocket-Key
HasRequiredHeaders(request) ==
    /\ request.kind = "http"
    /\ Line("upgrade", ": ", ascii("websocket")) \in request.lines
    /\ Line("connection", ": ", ascii("upgrade")) \in request.lines
    /\ Line("sec-websocket-version", ": ", ascii("13")) \in request.lines
    /\ \E l \in request.lines : l.name = "host"
    /\ \E l \in request.lines : l.name = "sec-websocket-key"

\* C5: the Acceptor's try_upgrade writes the 101 response only when the
\* request has all the required headers; a request missing any of them is
\* refused: try_upgrade returns an error and no 101 is written.
C5_AcceptorRefusesIncompleteRequest ==
    (hs_key = None /\ hs_result /= NoResult) =>
        /\ hs_written.some => HasRequiredHeaders(hs_request)
        /\ ~HasRequiredHeaders(hs_request) =>
              ~hs_result.ok /\ ~hs_written.some

\* C30 as stated: on the accepting side the per-connection task, which is
\* what reads and writes frames, runs only on a connection whose try_upgrade
\* returned Ok, and never on a connection whose request fails the validation
\* of the upgrade headers.
C30_NoFramesWithoutValidHandshake ==
    (hs_key = None /\ hs_task) =>
        /\ hs_result.ok
        /\ HasRequiredHeaders(hs_request)

\* the accept key of RFC 6455 for each key of SecKeys, written out:
\* "s3pPLMBiTxaQ9kYGzzhZRbK+xOo=" and "ICX+Yqv66kxgM0FcWaLWlFLwTAI="
ExpectedAccept(key) ==
    IF key = SampleKey
    THEN <<115, 51, 112, 80, 76, 77, 66, 105, 84, 120, 97, 81, 57, 107, 89, 71,
           122, 122, 104, 90, 82, 98, 75, 43, 120, 79, 111, 61>>
    ELSE <<73, 67, 88, 43, 89, 113, 118, 54, 54, 107, 120, 103, 77, 48, 70, 99,
           87, 97, 76, 87, 108, 70, 76, 119, 84, 65, 73, 61>>

\* the response carries a Sec-WebSocket-Accept header whose value is the
\* accept key of the key the Initiator sent
AcceptMatches ==
    /\ hs_request.kind = "http"
    /\ \E l \in hs_request.lines :
          l.name = "sec-websocket-accept" /\ l.value = ExpectedAccept(hs_key.v)

\* C21: the Initiator's try_upgrade returns Ok only when the response has a
\* Sec-WebSocket-Accept header equal to the accept key of the key it sent;
\* when the header is missing or its value differs it returns an error, and
\* the connection is not used for frames.
C21_InitiatorChecksAccept ==
    (hs_key.some /\ hs_result /= NoResult) =>
        /\ hs_result.ok => AcceptMatches
        /\ ~AcceptMatches =>
              /\ ~hs_result.ok /\ hs_result /= Panic
              /\ ~hs_task

\* C22: the accept key is base64(SHA-1(key + "258EAFA5-E914-47DA-95CA-
\* C5AB0DC85B11")): for the key "dGhlIHNhbXBsZSBub25jZQ==" the Acceptor
\* answers "s3pPLMBiTxaQ9kYGzzhZRbK+xOo=", and the accept key the Initiator
\* takes as equal is the written-out one of the key it sent.
C22_AcceptKeyOfSampleNonce ==
    /\ (hs_key = None /\ hs_written.some) =>
          /\ \E l \in hs_request.lines :
                l.name = "sec-websocket-key" /\ l.value = SampleKey
          /\ \E l \in hs_written.v.lines :
                /\ l.name = "sec-websocket-accept"
                /\ l.value = <<115, 51, 112, 80, 76, 77, 66, 105, 84, 120, 97,
                               81, 57, 107, 89, 71, 122, 122, 104, 90, 82, 98,
                               75, 43, 120, 79, 111, 61>>
    /\ (hs_key.some /\ hs_result.ok) => AcceptMatches

C22_Witness ==
    /\ hs_key = None /\ hs_result.ok /\ hs_written.some
    /\ Line("sec-websocket-key", ": ", SampleKey) \in hs_request.lines
    /\ Line("sec-websocket-accept", ": ", ExpectedAccept(SampleKey))
          \in hs_written.v.lines

StatusErrors ==
    { Err(ProtocolViolated("ProtocolError")),
      Err(ProtocolViolated("InvalidPayloadData")) }

\* C29 as stated: the conversion to a Message of a final Text frame whose
\* payload is not UTF-8, of a single frame with fin=false and of an empty
\* list of frames each return an error that carries the ProtocolError or
\* the InvalidPayloadData status.
C29_MessageDecodeErrorsCarryStatus ==
    /\ (c_step = "message" /\ c_frame.header.fin
            /\ c_frame.header.opcode = "Text"
            /\ \E i \in 1..Len(c_frame.payload) : c_frame.payload[i] = 255)
          => c_out \in StatusErrors
    /\ (c_step = "message" /\ ~c_frame.header.fin) => c_out \in StatusErrors
    /\ (c_step = "assembled" /\ c_frames = <<>>) => c_out \in StatusErrors

\* C34 as stated: the buffer a call of read_frame_bytes returns holds the
\* bytes it took from the stream, each at its position: header, extended
\* length, key and payload.
C34_ReaderReturnsTheFrameBytes ==
    c_case = "stream" =>
        \A i \in 1..Len(c_read) :
            c_read[i].ok =>
                c_read[i].val =
                    SubSeq(StreamOf(c_frames),
                           SizeOfFrames(c_frames, 1, i - 1) + 1,
                           SizeOfFrames(c_frames, 1, i))

\* C36 as stated: read_http_bytes takes from the stream the handshake
\* message up to its blank line and no byte more: what the stream holds
\* afterwards is the frames the peer wrote behind it, and read_frame_bytes
\* returns the first of them complete.
C36_HandshakeReaderStopsAtBlankLine ==
    (c_case = "http" /\ c_step /= "init" /\ c_out.ok) =>
        /\ c_bytes = StreamOf(SubSeq(c_frames, Len(c_read) + 1, Len(c_frames)))
        /\ \A i \in 1..Len(c_read) :
              c_read[i] = Ok(Frame_into_bytes(c_frames[i]))

\* C37 as stated: the Frame built from a Close message, whatever its code
\* and however long its reason, converts back to a Close message with the
\* same code, never to an error.
C37_CloseSurvivesTheCut ==
    (c_step = "message_back" /\ c_message.kind = "Close") =>
        /\ c_out.ok
        /\ c_out.val.kind = "Close"
        /\ c_out.val.code = c_message.code

-----------------------------------------------------------------------------
(* Properties of receive, checked under SpecReceive *)

\* the unread bytes b start with a whole frame of a valid opcode
HeadHasFrame(b) ==
    /\ Len(b) >= 2
    /\ ValidOpcodeNibble(b)
    /\ Len(b) >= 2 + AnnouncedLenBytes(b) + AnnouncedKeyBytes(b)
    /\ Len(b) >= 2 + AnnouncedLenBytes(b) + AnnouncedKeyBytes(b) + DeclaredLen(b)

\* the number of bytes of the frame b starts with
HeadSize(b) == 2 + AnnouncedLenBytes(b) + AnnouncedKeyBytes(b) + DeclaredLen(b)

\* the unread bytes b stop inside the header, the extended length, the key
\* or the payload of a frame
HeadIsCut(b) ==
    \/ Len(b) < 2
    \/ /\ ValidOpcodeNibble(b)
       /\ \/ Len(b) < 2 + AnnouncedLenBytes(b) + AnnouncedKeyBytes(b)
          \/ Len(b) < HeadSize(b)

\* this step is an iteration of the loop of receive on side r
ReceiveStep(r) ==
    \/ Len(wire'[Peer(r)]) < Len(wire[Peer(r)])
    \/ Len(received'[r]) > Len(received[r])
    \/ Len(rx_frames'[r]) > Len(rx_frames[r])

LastResult(results) == results[Len(results)]

\* C25 as stated: a receive call that has kept the first fragment of a
\* message and then reads a frame whose opcode is not Continue returns an
\* error, not a Message.
C25_NonContinueFragmentIsRejected ==
    [][\A r \in Sides :
          LET b == wire[Peer(r)]
          IN  /\ Len(received'[r]) > Len(received[r])
              /\ rx_frames[r] /= <<>>
              /\ HeadHasFrame(b)
              /\ \/ b[1] % 16 /= 0
                 \/ \E i \in 2..Len(rx_frames[r]) :
                        rx_frames[r][i].header.opcode /= "Continue"
              => ~LastResult(received'[r]).ok]_vars

\* C26: an iteration of receive takes exactly the bytes of one frame; when
\* that frame has fin=true the call returns and keeps no frame, so the next
\* call starts at the frame that follows; when it has fin=false the call
\* keeps the frame and reads on. A call whose first frame has fin=true
\* reads that frame only.
C26_ReceiveReturnsAtFirstFin ==
    [][\A r \in Sides :
          LET b == wire[Peer(r)]
          IN  ReceiveStep(r) /\ HeadHasFrame(b) =>
                  /\ wire'[Peer(r)] = SubSeq(b, HeadSize(b) + 1, Len(b))
                  /\ \A i \in 1..Len(rx_frames'[r]) :
                        ~rx_frames'[r][i].header.fin
                  /\ IF b[1] >= 128
                     THEN /\ Len(received'[r]) = Len(received[r]) + 1
                          /\ rx_frames'[r] = <<>>
                     ELSE /\ Len(received'[r]) = Len(received[r])
                          /\ Len(rx_frames'[r]) = Len(rx_frames[r]) + 1]_vars

C26_Witness ==
    \E r \in Sides :
        /\ Len(sent) = 3 /\ wire[Peer(r)] = <<>> /\ rx_frames[r] = <<>>
        /\ received[r] = <<Ok(Text(<<97, 98>>)), Ok(Binary(<<66>>))>>

\* C27 as stated: a receive call that reads a frame header with a reserved
\* opcode nibble returns the error that carries the ProtocolError status.
C27_InvalidOpcodeIsProtocolError ==
    [][\A r \in Sides :
          LET b == wire[Peer(r)]
          IN  ReceiveStep(r) /\ Len(b) >= 2 /\ ~ValidOpcodeNibble(b) =>
                  /\ Len(received'[r]) = Len(received[r]) + 1
                  /\ LastResult(received'[r]) =
                        Err(ProtocolViolated("ProtocolError"))]_vars

\* C28: when the stream has ended or failed and the unread bytes stop inside
\* a frame (in its header, extended length, key or payload), the iteration
\* of receive that meets the end returns the error of an abnormal close at
\* once: no Message is built from the frames read so far, and they are gone.
C28_StreamEndFailsTheCall ==
    [][\A r \in Sides :
          LET b == wire[Peer(r)]
          IN  ReceiveStep(r) /\ closed[Peer(r)] /\ HeadIsCut(b) =>
                  /\ Len(received'[r]) = Len(received[r]) + 1
                  /\ LastResult(received'[r]) =
                        Err(ProtocolViolated("CloseAbnormal"))
                  /\ rx_frames'[r] = <<>>
                  /\ wire'[Peer(r)] = <<>>]_vars

C28_Witness ==
    \E r \in Sides :
        /\ closed[Peer(r)] /\ wire[Peer(r)] = <<>> /\ rx_frames[r] = <<>>
        /\ Len(sent) = 2
        /\ sent[1].bytes[1] = 1 /\ sent[2].bytes[1] = 0
        /\ received[r] = <<Err(ProtocolViolated("CloseAbnormal"))>>

\* C35 as stated: no receive call of the Acceptor (type tag Client) ends in
\* a panic; every frame that decodes, with or without a masking key, gives
\* a Message or an error.
C35_AcceptorReceiveNeverPanics ==
    \A i \in 1..Len(received["Client"]) : received["Client"][i] /= Panic

-----------------------------------------------------------------------------
(* Properties of the two halves of one connection, checked under Spec *)

\* the bytes of the records of log from the i-th on, one after the other
RECURSIVE BytesFrom(_, _)
BytesFrom(log, i) ==
    IF i > Len(log) THEN <<>> ELSE log[i].bytes \o BytesFrom(log, i + 1)

\* what the receive calls of side to have made of the sends of side from
HalvesAgree(from, to) ==
    LET log == SentBy(sent, from)
        got == received[to]
        taken == Len(got) + Len(rx_frames[to])
    IN  /\ taken <= Len(log)
        /\ \A i \in 1..Len(got) : got[i] = Ok(log[i].message)
        /\ wire[from] = BytesFrom(log, taken + 1)
        /\ \A i \in 1..Len(log) :
              HeadHasFrame(log[i].bytes) /\ HeadSize(log[i].bytes) = Len(log[i].bytes)

\* C31: in every interleaving of the send calls and the receive calls of
\* the two sides, each direction carries its own messages only: the results
\* of receive are the messages the peer sent, in order, every send wrote
\* one whole frame, and the stream holds the frames not read yet. The read
\* of a frame finds it whole as soon as its bytes are written, whatever
\* was sent the other way: it waits for its peer's send only.
C31_HalvesAreIndependent ==
    /\ HalvesAgree("Server", "Client")
    /\ HalvesAgree("Client", "Server")
    /\ \A s \in Sides :
          wire[s] /= <<>> => read_frame_bytes(wire[s]).status = "ok"

C31_Witness ==
    /\ Len(sent) = 2 /\ sent[1].side = "Server" /\ sent[2].side = "Client"
    /\ received["Server"] = <<Ok(Text(LongPayload))>>
    /\ received["Client"] = <<Ok(Close("ProtocolError", Some(<<98, 121, 101>>)))>>

-----------------------------------------------------------------------------
(* Properties of the registry, checked under SpecRegistry *)

\* no two registered clients have the same name
NamesAreUnique(clients) ==
    \A a, b \in DOMAIN clients.addr_map :
        clients.addr_map[a].name = clients.addr_map[b].name => a = b

\* every token refers to a registered address, every address has one token
TokensMatchAddresses(clients) ==
    /\ \A t \in DOMAIN clients.token_map :
          clients.token_map[t] \in DOMAIN clients.addr_map
    /\ \A a \in DOMAIN clients.addr_map :
          Cardinality({t \in DOMAIN clients.token_map :
                          clients.token_map[t] = a}) = 1

\* the last call was a try_connect that returned None
Refused == rg_call.op = "try_connect" /\ ~rg_call.token.some

\* C38: after any sequence of try_connect and disconnect calls the names
\* of the registered clients are distinct, the token map and the address
\* map describe the same addresses with one token each, and a try_connect
\* that returned None has left both maps as they were.
C38_RegistryStaysConsistent ==
    /\ NamesAreUnique(sv_clients)
    /\ TokensMatchAddresses(sv_clients)
    /\ Refused => sv_clients = rg_call.before

\* the part of C38 that holds: the three invariants of the maps, and a
\* try_connect refused for its name leaves both maps as they were
C38_MapsStayConsistent ==
    /\ NamesAreUnique(sv_clients)
    /\ TokensMatchAddresses(sv_clients)
    /\ (Refused /\ rg_call.address \notin DOMAIN rg_call.before.addr_map)
          => sv_clients = rg_call.before
    /\ Refused => sv_clients.token_map = rg_call.before.token_map

\* both addresses are registered and a try_connect was refused for its name
C38_Reached ==
    /\ DOMAIN sv_clients.addr_map = Addrs
    /\ Refused
    /\ sv_clients = rg_call.before

-----------------------------------------------------------------------------
(* Properties of the chat server, checked under SpecServer *)

\* handle_auth of the task of a has processed an auth request and returned
AuthProcessed(a) ==
    sv_task[a].name /= "" /\ sv_task[a].pc \notin {"try_connect", "lock", "reply"}

\* C23: every auth request the server processes is answered with an
\* AuthSuccess reply to the requesting client, carrying the token when the
\* registration succeeded and the failure when it was rejected: a rejected
\* requester gets its reply too.
C23_EveryAuthRequestIsAnswered ==
    \A a \in Addrs :
        AuthProcessed(a) =>
            \E i \in 1..Len(sv_out[a]) :
                sv_out[a][i] = AuthSuccess(sv_task[a].maybe_token)

\* on_connect of the task of a has returned
TaskEnded(a) == sv_task[a].pc \in {"returned_ok", "returned_err"}

\* C39: when the task of a registered client's connection has ended, for
\* whatever reason, the client's entry is no longer in the registry: the
\* registry never keeps an entry whose task is gone.
C39_EndedTaskIsUnregistered ==
    \A a \in Addrs :
        (TaskEnded(a) /\ sv_task[a].maybe_token.some) =>
            a \notin DOMAIN sv_clients.addr_map

\* the part of C39 that holds: a task that ended after a receive error has
\* gone through on_disconnect, and its entry is removed
C39_ReceiveErrorUnregisters ==
    \A a \in Addrs :
        sv_task[a].pc = "returned_ok" => a \notin DOMAIN sv_clients.addr_map

\* a registered client's task has ended after a receive error
C39_Reached ==
    \E a \in Addrs :
        sv_task[a].pc = "returned_ok" /\ sv_task[a].maybe_token.some

-----------------------------------------------------------------------------
(* Properties of the registry lock, checked under SpecServerFair *)

\* the positions at which a task has called clients.lock() and waits for it
LockRequests == {"try_connect", "lock", "by_token", "broadcast", "on_disconnect"}

\* the positions at which a task waits for an inbound frame
ReceivePoints == {"handle_auth", "receive"}

\* the holder of the guard is in the one stretch of code that keeps it over
\* several statements: it neither waits for a frame nor requests the lock
LockDiscipline ==
    \A a \in Addrs :
        sv_lock = Some(a) =>
            /\ sv_task[a].pc = "reply"
            /\ sv_task[a].pc \notin ReceivePoints \cup LockRequests

\* C33: the task that holds the lock of the registry neither waits for an
\* inbound frame nor requests the lock again, and with writes that complete
\* every lock request of every task is eventually granted.
C33_EveryLockRequestIsGranted ==
    /\ []LockDiscipline
    /\ \A a \in Addrs : \A p \in LockRequests :
          (sv_task[a].pc = p) ~> (sv_task[a].pc /= p)

\* a task requests the lock while the task of another connection holds it
C33_Witness ==
    \E a, b \in Addrs :
        /\ a /= b
        /\ sv_lock = Some(a)
        /\ sv_task[b].pc \in LockRequests

-----------------------------------------------------------------------------
(* Properties of the component stack, checked under SpecApp *)

\* the components of the stack that are no Auth pop-up, bottom first
Permanent(stack) == SelectSeq(stack, LAMBDA c : c.kind /= "Auth")

\* C40: after any sequence of queued AppEvents the focus is an index of the
\* non-empty stack, and the components that are no Auth pop-up are all
\* still there, with the Chat at the bottom: ComponentUnfocus has removed
\* Auth pop-ups only.
C40_UnfocusRemovesOnlyAuth ==
    /\ Len(ap_stack) > 0
    /\ ap_focus < Len(ap_stack)
    /\ ap_stack[1].kind = "Chat"
    /\ Len(Permanent(ap_stack)) = 2

\* the part of C40 that holds: while the Chat is at the bottom and the
\* focused component is an Auth pop-up, handling ComponentUnfocus removes
\* that pop-up and nothing else
C40_UnfocusOnAuthRemovesIt ==
    [][(/\ ap_queue /= <<>>
        /\ Head(ap_queue) = ComponentUnfocus
        /\ ap_focus < Len(ap_stack)
        /\ ap_stack[1].kind = "Chat"
        /\ ap_stack[ap_focus + 1].kind = "Auth"
        /\ ap_stack' /= ap_stack)
          => (/\ Permanent(ap_stack') = Permanent(ap_stack)
              /\ Len(ap_stack') = Len(ap_stack) - 1
              /\ ap_focus' = ap_focus - 1)]_vars

-----------------------------------------------------------------------------
(* Properties of the background loops, checked under SpecTasksFair *)

AllLoopsStopped ==
    ct_emitter = "stopped" /\ ct_receiver = "stopped" /\ ct_sender = "stopped"

\* once the token is cancelled no loop begins another iteration: the
\* key-event loop polls, the receive loop calls receive, the send loop
\* calls recv only if it was already there
NoNewIteration ==
    ct_token =>
        /\ ct_emitter' = "poll" => ct_emitter = "poll"
        /\ ct_receiver' = "receive" => ct_receiver = "receive"
        /\ ct_sender' = "recv" => ct_sender = "recv"

\* C32: after the cancellation token is cancelled every background loop
\* observes it between iterations, so that none begins another iteration,
\* and every loop stops; this also after the Message channel is closed.
C32_LoopsObserveCancellation ==
    /\ [][NoNewIteration]_vars
    /\ ct_token ~> AllLoopsStopped

\* the part of C32 that holds: after the cancellation every loop is
\* stopped in the end, the key-event loop by the token, the other two when
\* the runtime drops them
C32_LoopsEndAfterCancellation == ct_token ~> AllLoopsStopped

\* the part of C32 that holds for the key-event loop
C32_EmitterObservesCancellation ==
    [][ct_token => (ct_emitter' = "poll" => ct_emitter = "poll")]_vars

====
